---- MODULE Spec2Model ----
(***************************************************************************)
(* The Zenzap API client (zenzap_client.py): request building, signing,    *)
(* the single HTTP exchange of each operation and the normalisation of its *)
(* outcome into an ApiResponse.                                            *)
(*                                                                         *)
(* A Python str is a sequence of one-character strings.  A Python value    *)
(* (argument, JSON value) is a tagged record: PyNone, PyStr, PyInt,       *)
(* PyList, PyDict.                                                         *)
(* A dict is a sequence of <<key, value>> pairs in insertion order.        *)
(***************************************************************************)
EXTENDS Integers, Sequences, FiniteSets, TLC

VARIABLES client, pc, call, req, wire, srv, ret

vars == <<client, pc, call, req, wire, srv, ret>>

----------------------------------------------------------------------------
(* Bounds of the model *)

\* due_date arguments range over PyNone and 0..MaxDueDate
MaxDueDate == 1
\* member-id lists have at most MaxMembers elements
MaxMembers == 2

----------------------------------------------------------------------------
(* Python values *)

PyNone == [t |-> "none"]
PyStr(s) == [t |-> "str", s |-> s]
PyInt(n) == [t |-> "int", n |-> n]
PyList(l) == [t |-> "list", l |-> l]
PyDict(o) == [t |-> "obj", o |-> o]

\* bool(v): the truth value Python's `if v:` tests
Truthy(v) ==
    CASE v.t = "none" -> FALSE
      [] v.t = "str"  -> v.s # <<>>
      [] v.t = "int"  -> v.n # 0
      [] v.t = "list" -> v.l # <<>>
      [] v.t = "obj"  -> v.o # <<>>

\* body[key] = value on a dict: replaces the value of an existing key in
\* place, appends a new key at the end
DictSet(d, key, value) ==
    IF \E i \in DOMAIN d : d[i][1] = key
    THEN [i \in DOMAIN d |-> IF d[i][1] = key THEN <<key, value>> ELSE d[i]]
    ELSE Append(d, <<key, value>>)

DictKeys(d) == [i \in DOMAIN d |-> d[i][1]]

DictHas(d, key) == \E i \in DOMAIN d : d[i][1] = key

DictGet(d, key) == d[CHOOSE i \in DOMAIN d : d[i][1] = key][2]

RECURSIVE Concat(_)
Concat(ss) ==
    IF ss = <<>> THEN <<>>
    ELSE IF Len(ss) = 1 THEN ss[1]
    ELSE LET half == Len(ss) \div 2
         IN  Concat(SubSeq(ss, 1, half)) \o Concat(SubSeq(ss, half + 1, Len(ss)))

RECURSIVE Join(_, _)
Join(sep, ss) ==
    IF ss = <<>> THEN <<>>
    ELSE IF Len(ss) = 1 THEN ss[1]
    ELSE ss[1] \o sep \o Join(sep, Tail(ss))

Digit == <<"0","1","2","3","4","5","6","7","8","9">>

RECURSIVE NatToStr(_)
NatToStr(n) ==
    IF n < 10 THEN <<Digit[n + 1]>>
    ELSE NatToStr(n \div 10) \o <<Digit[(n % 10) + 1]>>

\* str(n) of an int
IntToStr(n) == IF n < 0 THEN <<"-">> \o NatToStr(0 - n) ELSE NatToStr(n)

----------------------------------------------------------------------------
(* json.dumps *)

\* the escapes json.dumps applies inside a string (ensure_ascii=True); the
\* characters of the model are ASCII, of which the quote and the backslash
\* are escaped
JsonEscapeChar(c) ==
    CASE c = "\"" -> <<"\\","\"">>
      [] c = "\\" -> <<"\\","\\">>
      [] c = "\n" -> <<"\n">>
      [] OTHER    -> <<c>>

JsonString(s) == <<"\"">> \o Concat([i \in DOMAIN s |-> JsonEscapeChar(s[i])]) \o <<"\"">>

RECURSIVE json_dumps_sep(_, _, _)
json_dumps_sep(v, item_sep, key_sep) ==
    CASE v.t = "none" -> <<"n","u","l","l">>
      [] v.t = "str"  -> JsonString(v.s)
      [] v.t = "int"  -> IntToStr(v.n)
      [] v.t = "list" ->
            <<"[">> \o Join(item_sep,
                [i \in DOMAIN v.l |-> json_dumps_sep(v.l[i], item_sep, key_sep)])
            \o <<"]">>
      [] v.t = "obj"  ->
            <<"{">> \o Join(item_sep,
                [i \in DOMAIN v.o |->
                    JsonString(v.o[i][1]) \o key_sep
                    \o json_dumps_sep(v.o[i][2], item_sep, key_sep)])
            \o <<"}">>

\* json.dumps(body, separators=(",", ":"))
json_dumps_compact(body) == json_dumps_sep(PyDict(body), <<",">>, <<":">>)

\* json.dumps(body) with the library's default separators (", ", ": ")
json_dumps_default(body) == json_dumps_sep(PyDict(body), <<","," ">>, <<":"," ">>)

----------------------------------------------------------------------------
(* urllib.parse.quote, quote_plus, urlencode *)

\* characters quote never encodes: letters, digits and "_.-~"
AlwaysSafe ==
    {"a","b","c","d","e","f","g","h","i","j","k","l","m","n","o","p","q","r","s","t","u","v","w","x","y","z",
     "A","B","C","D","E","F","G","H","I","J","K","L","M","N","O","P","Q","R","S","T","U","V","W","X","Y","Z",
     "0","1","2","3","4","5","6","7","8","9",
     "_",".","-","~"}

\* ASCII codes of the other characters of the model
CharCode == (" " :> 32) @@ ("\"" :> 34) @@ ("%" :> 37) @@ ("&" :> 38)
            @@ ("+" :> 43) @@ ("/" :> 47) @@ (":" :> 58) @@ ("=" :> 61)
            @@ ("?" :> 63) @@ ("\\" :> 92) @@ ("\n" :> 10)

HexDigit == <<"0","1","2","3","4","5","6","7","8","9","A","B","C","D","E","F">>

\* quote(s, safe=safe): every character outside AlwaysSafe and safe becomes
\* %XX, the two upper-case hex digits of its code
quote(s, safe) ==
    Concat([i \in DOMAIN s |->
        IF s[i] \in AlwaysSafe \cup safe THEN <<s[i]>>
        ELSE <<"%", HexDigit[(CharCode[s[i]] \div 16) + 1],
                    HexDigit[(CharCode[s[i]] % 16) + 1]>>])

\* quote_plus(s): a space becomes "+", everything else as quote(s, safe="")
quote_plus(s) ==
    LET q == quote(s, {" "})
    IN  [i \in DOMAIN q |-> IF q[i] = " " THEN "+" ELSE q[i]]

\* the text urlencode gives one scalar value: a str as it is, anything else
\* through str()
QueryText(v) ==
    CASE v.t = "str" -> v.s
      [] v.t = "int" -> IntToStr(v.n)
      [] v.t = "none" -> <<"N","o","n","e">>

\* the key=value pairs urlencode(query, doseq=True) emits for one item: one
\* pair per element of a list value, one pair for any other value
QueryPairs(k, v) ==
    IF v.t = "list"
    THEN [i \in DOMAIN v.l |-> quote_plus(k) \o <<"=">> \o quote_plus(QueryText(v.l[i]))]
    ELSE <<quote_plus(k) \o <<"=">> \o quote_plus(QueryText(v))>>

\* urlencode(query, doseq=True) of a dict
urlencode(query) ==
    Join(<<"&">>, Concat([i \in DOMAIN query |-> QueryPairs(query[i][1], query[i][2])]))

\* {k: v for k, v in params.items() if v is not None}
\* _build_path passing every parameter on to urlencode, None included
DropNone_keeps_all(params) == params

RECURSIVE DropNone(_)
DropNone(params) ==
    IF params = <<>> THEN <<>>
    ELSE IF Head(params)[2] = PyNone THEN DropNone(Tail(params))
    ELSE <<Head(params)>> \o DropNone(Tail(params))

\* ZenzapClient._build_path
_build_path(path, params) ==
    IF params = <<>> THEN path
    ELSE LET query == urlencode(DropNone(params))
         IN  IF query # <<>> THEN path \o <<"?">> \o query ELSE path

----------------------------------------------------------------------------
(* Signing and headers *)

\* hmac.new(key, msg, hashlib.sha256).hexdigest(): the digest is modelled as
\* a collision-free function of the key and the message (the UTF-8 encoding
\* of both is injective)
hmac_sha256_hexdigest(key, msg) == <<"hmac-sha256", key, msg>>

\* ZenzapClient._generate_signature
_generate_signature(self, data) == hmac_sha256_hexdigest(self.secret, data)

\* _get_headers with the Content-Type header set whatever the flag
_get_headers_always_content_type(self, signature, include_content_type) ==
    ("Authorization" :> (<<"B","e","a","r","e","r"," ">> \o self.api_key))
    @@ ("X-Signature" :> signature)
    @@ ("Content-Type" :> <<"a","p","p","l","i","c","a","t","i","o","n","/","j","s","o","n">>)

\* ZenzapClient._get_headers: a dict, header name -> value
_get_headers(self, signature, include_content_type) ==
    LET headers == ("Authorization" :> (<<"B","e","a","r","e","r"," ">> \o self.api_key))
                   @@ ("X-Signature" :> signature)
    IN  IF include_content_type
        THEN headers @@ ("Content-Type" :> <<"a","p","p","l","i","c","a","t","i","o","n","/","j","s","o","n">>)
        ELSE headers

----------------------------------------------------------------------------
(* The request each transport helper hands to the requests library *)

\* the absence of the data argument in requests.get(url, headers, timeout)
NoData == <<"no-data">>

\* _get signing the whole URL instead of the path
_get_signs_url(self, path) ==
    LET url == self.base_url \o path
        signature == _generate_signature(self, url)
    IN  [method |-> "GET", url |-> url,
         headers |-> _get_headers(self, signature, FALSE),
         data |-> NoData, timeout |-> self.timeout]

\* ZenzapClient._get up to the call of requests.get
_get(self, path) ==
    LET signature == _generate_signature(self, path)
        url == self.base_url \o path
    IN  [method |-> "GET", url |-> url,
         headers |-> _get_headers(self, signature, FALSE),
         data |-> NoData, timeout |-> self.timeout]

\* _post signing a second serialisation of the body, made with the default
\* separators, while the compact one is sent
_post_signs_default_dump(self, path, body) ==
    LET body_str == json_dumps_compact(body)
        signature == _generate_signature(self, json_dumps_default(body))
        url == self.base_url \o path
    IN  [method |-> "POST", url |-> url,
         headers |-> _get_headers(self, signature, TRUE),
         data |-> body_str, timeout |-> self.timeout]

\* ZenzapClient._post up to the call of requests.post
_post(self, path, body) ==
    LET body_str == json_dumps_compact(body)
        signature == _generate_signature(self, body_str)
        url == self.base_url \o path
    IN  [method |-> "POST", url |-> url,
         headers |-> _get_headers(self, signature, TRUE),
         data |-> body_str, timeout |-> self.timeout]

\* ZenzapClient._patch up to the call of requests.patch
_patch(self, path, body) ==
    LET body_str == json_dumps_compact(body)
        signature == _generate_signature(self, body_str)
        url == self.base_url \o path
    IN  [method |-> "PATCH", url |-> url,
         headers |-> _get_headers(self, signature, TRUE),
         data |-> body_str, timeout |-> self.timeout]

\* a DELETE whose signature covers the method as well as the body
_delete_signs_method_and_body(self, path, body) ==
    LET body_str == json_dumps_compact(body)
        signature == _generate_signature(self, <<"D","E","L","E","T","E">> \o body_str)
    IN  [method |-> "DELETE",
         url |-> self.base_url \o path,
         headers |-> _get_headers(self, signature, TRUE),
         data |-> body_str,
         timeout |-> self.timeout]

\* ZenzapClient._delete up to the call of requests.delete
_delete(self, path, body) ==
    LET body_str == json_dumps_compact(body)
        signature == _generate_signature(self, body_str)
        url == self.base_url \o path
    IN  [method |-> "DELETE", url |-> url,
         headers |-> _get_headers(self, signature, TRUE),
         data |-> body_str, timeout |-> self.timeout]

----------------------------------------------------------------------------
(* The bodies and paths of the client operations *)

\* create_topic testing its optional arguments with `is not None`
create_topic_body_not_none(name, members, description, external_id) ==
    LET b0 == << <<<<"n","a","m","e">>, name>>, <<<<"m","e","m","b","e","r","s">>, members>> >>
        b1 == IF description # PyNone THEN DictSet(b0, <<"d","e","s","c","r","i","p","t","i","o","n">>, description) ELSE b0
        b2 == IF external_id # PyNone THEN DictSet(b1, <<"e","x","t","e","r","n","a","l","I","d">>, external_id) ELSE b1
    IN  b2

\* the dict create_topic builds
create_topic_body(name, members, description, external_id) ==
    LET b0 == << <<<<"n","a","m","e">>, name>>, <<<<"m","e","m","b","e","r","s">>, members>> >>
        b1 == IF Truthy(description) THEN DictSet(b0, <<"d","e","s","c","r","i","p","t","i","o","n">>, description) ELSE b0
        b2 == IF Truthy(external_id) THEN DictSet(b1, <<"e","x","t","e","r","n","a","l","I","d">>, external_id) ELSE b1
    IN  b2

\* update_topic testing its optional arguments by truth value
update_topic_body_truthy(name, description) ==
    LET b0 == <<>>
        b1 == IF Truthy(name) THEN DictSet(b0, <<"n","a","m","e">>, name) ELSE b0
        b2 == IF Truthy(description) THEN DictSet(b1, <<"d","e","s","c","r","i","p","t","i","o","n">>, description) ELSE b1
    IN  b2

\* the dict update_topic builds
update_topic_body(name, description) ==
    LET b0 == <<>>
        b1 == IF name # PyNone THEN DictSet(b0, <<"n","a","m","e">>, name) ELSE b0
        b2 == IF description # PyNone THEN DictSet(b1, <<"d","e","s","c","r","i","p","t","i","o","n">>, description) ELSE b1
    IN  b2

\* the dict add_topic_members and remove_topic_members build
member_ids_body(member_ids) == << <<<<"m","e","m","b","e","r","I","d","s">>, member_ids>> >>

\* the dict send_message builds
send_message_body(topic_id, text, external_id) ==
    LET b0 == << <<<<"t","o","p","i","c","I","d">>, topic_id>>, <<<<"t","e","x","t">>, text>> >>
        b1 == IF Truthy(external_id) THEN DictSet(b0, <<"e","x","t","e","r","n","a","l","I","d">>, external_id) ELSE b0
    IN  b1

\* create_task testing due_date by truth value, as its string arguments
create_task_body_truthy_due_date(topic_id, title, description, assignee, due_date, external_id) ==
    LET b0 == << <<<<"t","o","p","i","c","I","d">>, topic_id>>, <<<<"t","i","t","l","e">>, title>> >>
        b1 == IF Truthy(description) THEN DictSet(b0, <<"d","e","s","c","r","i","p","t","i","o","n">>, description) ELSE b0
        b2 == IF Truthy(assignee) THEN DictSet(b1, <<"a","s","s","i","g","n","e","e">>, assignee) ELSE b1
        b3 == IF Truthy(due_date) THEN DictSet(b2, <<"d","u","e","D","a","t","e">>, due_date) ELSE b2
        b4 == IF Truthy(external_id) THEN DictSet(b3, <<"e","x","t","e","r","n","a","l","I","d">>, external_id) ELSE b3
    IN  b4

\* the dict create_task builds
create_task_body(topic_id, title, description, assignee, due_date, external_id) ==
    LET b0 == << <<<<"t","o","p","i","c","I","d">>, topic_id>>, <<<<"t","i","t","l","e">>, title>> >>
        b1 == IF Truthy(description) THEN DictSet(b0, <<"d","e","s","c","r","i","p","t","i","o","n">>, description) ELSE b0
        b2 == IF Truthy(assignee) THEN DictSet(b1, <<"a","s","s","i","g","n","e","e">>, assignee) ELSE b1
        b3 == IF due_date # PyNone THEN DictSet(b2, <<"d","u","e","D","a","t","e">>, due_date) ELSE b2
        b4 == IF Truthy(external_id) THEN DictSet(b3, <<"e","x","t","e","r","n","a","l","I","d">>, external_id) ELSE b3
    IN  b4

\* the dict of query parameters list_members and list_topics build
list_params(limit, cursor) == << <<<<"l","i","m","i","t">>, limit>>, <<<<"c","u","r","s","o","r">>, cursor>> >>

\* f"{value}" of a str argument inside a path
Fmt(v) == QueryText(v)

get_current_member(self) == _get(self, <<"/","v","2","/","m","e","m","b","e","r","s","/","m","e">>)

list_members(self, limit, cursor) ==
    _get(self, _build_path(<<"/","v","2","/","m","e","m","b","e","r","s">>, list_params(limit, cursor)))

create_topic(self, name, members, description, external_id) ==
    _post(self, <<"/","v","2","/","t","o","p","i","c","s">>, create_topic_body(name, members, description, external_id))

get_topic(self, topic_id) == _get(self, <<"/","v","2","/","t","o","p","i","c","s","/">> \o Fmt(topic_id))

\* get_topic_by_external_id quoting with the default safe set "/"
get_topic_by_external_id_default_safe(self, external_id) ==
    LET encoded_external_id == quote(external_id.s, {"/"})
    IN  _get(self, <<"/","v","2","/","t","o","p","i","c","s","/","e","x","t","e","r","n","a","l","/">> \o encoded_external_id)

get_topic_by_external_id(self, external_id) ==
    LET encoded_external_id == quote(external_id.s, {})
    IN  _get(self, <<"/","v","2","/","t","o","p","i","c","s","/","e","x","t","e","r","n","a","l","/">> \o encoded_external_id)

list_topics(self, limit, cursor) ==
    _get(self, _build_path(<<"/","v","2","/","t","o","p","i","c","s">>, list_params(limit, cursor)))

update_topic(self, topic_id, name, description) ==
    _patch(self, <<"/","v","2","/","t","o","p","i","c","s","/">> \o Fmt(topic_id), update_topic_body(name, description))

add_topic_members(self, topic_id, member_ids) ==
    _post(self, <<"/","v","2","/","t","o","p","i","c","s","/">> \o Fmt(topic_id) \o <<"/","m","e","m","b","e","r","s">>, member_ids_body(member_ids))

\* remove_topic_members sending its body with POST
remove_topic_members_by_post(self, topic_id, member_ids) ==
    _post(self, <<"/","v","2","/","t","o","p","i","c","s","/">> \o Fmt(topic_id) \o <<"/","m","e","m","b","e","r","s">>, member_ids_body(member_ids))

remove_topic_members(self, topic_id, member_ids) ==
    _delete(self, <<"/","v","2","/","t","o","p","i","c","s","/">> \o Fmt(topic_id) \o <<"/","m","e","m","b","e","r","s">>, member_ids_body(member_ids))

send_message(self, topic_id, text, external_id) ==
    _post(self, <<"/","v","2","/","m","e","s","s","a","g","e","s">>, send_message_body(topic_id, text, external_id))

create_task(self, topic_id, title, description, assignee, due_date, external_id) ==
    _post(self, <<"/","v","2","/","t","a","s","k","s">>,
          create_task_body(topic_id, title, description, assignee, due_date, external_id))

----------------------------------------------------------------------------
(* response.json() and str.strip() *)

IsWs(c) == c \in {" ", "\n", "\t", "\r"}

RECURSIVE SkipWs(_, _)
SkipWs(s, i) == IF i <= Len(s) /\ IsWs(s[i]) THEN SkipWs(s, i + 1) ELSE i

ParseFail == [ok |-> FALSE]

\* the characters of a JSON string from position i, just after its opening
\* quote, to its closing quote
RECURSIVE ScanString(_, _, _)
ScanString(s, i, acc) ==
    IF i > Len(s) THEN ParseFail
    ELSE IF s[i] = "\"" THEN [ok |-> TRUE, v |-> acc, i |-> i + 1]
    ELSE IF s[i] = "\\" THEN
        IF i + 1 > Len(s) THEN ParseFail
        ELSE IF s[i + 1] \in {"\"", "\\", "/"}
             THEN ScanString(s, i + 2, Append(acc, s[i + 1]))
        ELSE IF s[i + 1] = "n" THEN ScanString(s, i + 2, Append(acc, "\n"))
        ELSE ParseFail
    ELSE IF s[i] \in {"\n", "\t", "\r"} THEN ParseFail
    ELSE ScanString(s, i + 1, Append(acc, s[i]))

DigitValue(c) == CHOOSE d \in 0..9 : Digit[d + 1] = c

IsDigit(c) == \E d \in 1..10 : Digit[d] = c

RECURSIVE ScanDigits(_, _, _)
ScanDigits(s, i, acc) ==
    IF i <= Len(s) /\ IsDigit(s[i])
    THEN ScanDigits(s, i + 1, acc * 10 + DigitValue(s[i]))
    ELSE [ok |-> TRUE, v |-> PyInt(acc), i |-> i]

\* a JSON integer at position i: 0, or a non-zero digit and further digits
ScanInt(s, i) ==
    IF i > Len(s) \/ ~IsDigit(s[i]) THEN ParseFail
    ELSE IF s[i] = "0" THEN [ok |-> TRUE, v |-> PyInt(0), i |-> i + 1]
    ELSE ScanDigits(s, i, 0)

RECURSIVE ParseValue(_, _)
RECURSIVE ParseMembers(_, _, _)
RECURSIVE ParseElements(_, _, _)

\* the elements of a JSON array from position i (just after "[" or ","),
\* appended to the list acc
ParseElements(s, i, acc) ==
    LET val == ParseValue(s, SkipWs(s, i))
    IN  IF ~val.ok THEN ParseFail
        ELSE LET e == SkipWs(s, val.i)
                 l == Append(acc, val.v)
             IN  IF e > Len(s) THEN ParseFail
                 ELSE IF s[e] = "]" THEN [ok |-> TRUE, v |-> PyList(l), i |-> e + 1]
                 ELSE IF s[e] = "," THEN ParseElements(s, e + 1, l)
                 ELSE ParseFail

\* the members of a JSON object from position i (just after "{" or ","),
\* added to the dict acc; a repeated key keeps its place and takes the last
\* value, as in a Python dict
ParseMembers(s, i, acc) ==
    LET k0 == SkipWs(s, i)
    IN  IF k0 > Len(s) \/ s[k0] # "\"" THEN ParseFail
        ELSE LET key == ScanString(s, k0 + 1, <<>>)
             IN  IF ~key.ok THEN ParseFail
                 ELSE LET c == SkipWs(s, key.i)
                      IN  IF c > Len(s) \/ s[c] # ":" THEN ParseFail
                          ELSE LET val == ParseValue(s, SkipWs(s, c + 1))
                               IN  IF ~val.ok THEN ParseFail
                                   ELSE LET e == SkipWs(s, val.i)
                                            d == DictSet(acc, key.v, val.v)
                                        IN  IF e > Len(s) THEN ParseFail
                                            ELSE IF s[e] = "}"
                                                 THEN [ok |-> TRUE, v |-> PyDict(d), i |-> e + 1]
                                            ELSE IF s[e] = ","
                                                 THEN ParseMembers(s, e + 1, d)
                                            ELSE ParseFail

\* the JSON value that starts at position i: an object, an array, a
\* string, an integer or null (the values the modelled service answers with)
ParseValue(s, i) ==
    IF i > Len(s) THEN ParseFail
    ELSE IF s[i] = "{" THEN
        LET j == SkipWs(s, i + 1)
        IN  IF j <= Len(s) /\ s[j] = "}"
            THEN [ok |-> TRUE, v |-> PyDict(<<>>), i |-> j + 1]
            ELSE ParseMembers(s, i + 1, <<>>)
    ELSE IF s[i] = "[" THEN
        LET j == SkipWs(s, i + 1)
        IN  IF j <= Len(s) /\ s[j] = "]"
            THEN [ok |-> TRUE, v |-> PyList(<<>>), i |-> j + 1]
            ELSE ParseElements(s, i + 1, <<>>)
    ELSE IF s[i] = "\"" THEN
        LET r == ScanString(s, i + 1, <<>>)
        IN  IF r.ok THEN [ok |-> TRUE, v |-> PyStr(r.v), i |-> r.i] ELSE ParseFail
    ELSE IF s[i] = "-" THEN
        LET r == ScanInt(s, i + 1)
        IN  IF r.ok THEN [ok |-> TRUE, v |-> PyInt(0 - r.v.n), i |-> r.i] ELSE ParseFail
    ELSE IF IsDigit(s[i]) THEN ScanInt(s, i)
    ELSE IF Len(s) >= i + 3 /\ SubSeq(s, i, i + 3) = <<"n","u","l","l">>
         THEN [ok |-> TRUE, v |-> PyNone, i |-> i + 4]
    ELSE ParseFail

\* response.json(): the decoded document, or ok = FALSE where it raises
\* ValueError (no JSON value, or text after the value)
json_loads(text) ==
    LET r == ParseValue(text, SkipWs(text, 1))
    IN  IF r.ok /\ SkipWs(text, r.i) = Len(text) + 1
        THEN [ok |-> TRUE, v |-> r.v]
        ELSE ParseFail

RECURSIVE LStrip(_)
LStrip(s) == IF s # <<>> /\ IsWs(Head(s)) THEN LStrip(Tail(s)) ELSE s

RECURSIVE RStrip(_)
RStrip(s) ==
    IF s # <<>> /\ IsWs(s[Len(s)]) THEN RStrip(SubSeq(s, 1, Len(s) - 1)) ELSE s

\* str.strip()
Strip(s) == LStrip(RStrip(s))

\* str.rstrip(chars)
RECURSIVE rstrip(_, _)
rstrip(s, chars) ==
    IF s # <<>> /\ s[Len(s)] \in chars THEN rstrip(SubSeq(s, 1, Len(s) - 1), chars) ELSE s

----------------------------------------------------------------------------
(* ApiResponse *)

\* from_response with the upper limit of success included
from_response_upto_300(response) ==
    LET parsed == json_loads(response.text)
        text == Strip(response.text)
        data == IF parsed.ok THEN parsed.v
                ELSE IF text # <<>> THEN PyDict(<< <<<<"r","a","w">>, PyStr(text)>> >>)
                ELSE PyDict(<<>>)
    IN  [status |-> response.status_code,
         data |-> data,
         success |-> (200 <= response.status_code /\ response.status_code <= 300)]

\* from_response decoding the body of successful exchanges only
from_response_decodes_success_only(response) ==
    LET parsed == json_loads(response.text)
        text == Strip(response.text)
        ok == 200 <= response.status_code /\ response.status_code < 300
        data == IF ok /\ parsed.ok THEN parsed.v
                ELSE IF text # <<>> THEN PyDict(<< <<<<"r","a","w">>, PyStr(text)>> >>)
                ELSE PyDict(<<>>)
    IN  [status |-> response.status_code, data |-> data, success |-> ok]

\* from_response keeping the text of a body that is no JSON as received
from_response_untrimmed(response) ==
    LET parsed == json_loads(response.text)
        text == response.text
        data == IF parsed.ok THEN parsed.v
                ELSE IF text # <<>> THEN PyDict(<< <<<<"r","a","w">>, PyStr(text)>> >>)
                ELSE PyDict(<<>>)
    IN  [status |-> response.status_code,
         data |-> data,
         success |-> (200 <= response.status_code /\ response.status_code < 300)]

\* ApiResponse.from_response
from_response(response) ==
    LET parsed == json_loads(response.text)
        text == Strip(response.text)
        data == IF parsed.ok THEN parsed.v
                ELSE IF text # <<>> THEN PyDict(<< <<<<"r","a","w">>, PyStr(text)>> >>)
                ELSE PyDict(<<>>)
    IN  [status |-> response.status_code,
         data |-> data,
         success |-> (200 <= response.status_code /\ response.status_code < 300)]

\* the classes of requests.exceptions a failed exchange raises, each with
\* its base classes
ExceptionBases ==
    [RequestException |-> {},
     ConnectionError  |-> {"RequestException"},
     SSLError         |-> {"ConnectionError"},
     Timeout          |-> {"RequestException"},
     ConnectTimeout   |-> {"ConnectionError", "Timeout"},
     ReadTimeout      |-> {"Timeout"}]

\* exception.__class__.__name__
ClassName ==
    [RequestException |-> <<"R","e","q","u","e","s","t","E","x","c","e","p","t","i","o","n">>,
     ConnectionError  |-> <<"C","o","n","n","e","c","t","i","o","n","E","r","r","o","r">>,
     SSLError         |-> <<"S","S","L","E","r","r","o","r">>,
     Timeout          |-> <<"T","i","m","e","o","u","t">>,
     ConnectTimeout   |-> <<"C","o","n","n","e","c","t","T","i","m","e","o","u","t">>,
     ReadTimeout      |-> <<"R","e","a","d","T","i","m","e","o","u","t">>]

RECURSIVE IsSubclass(_, _)
IsSubclass(cls, base) ==
    cls = base \/ \E b \in ExceptionBases[cls] : IsSubclass(b, base)

\* except requests.ConnectionError
CaughtConnectionErrorOnly(cls) == IsSubclass(cls, "ConnectionError")

\* except requests.RequestException
Caught(cls) == IsSubclass(cls, "RequestException")

\* ApiResponse.from_exception
from_exception(exception) ==
    [status |-> 0,
     data |-> PyDict(<< <<<<"e","r","r","o","r">>, PyStr(exception.msg)>>,
                        <<<<"t","y","p","e">>, PyStr(ClassName[exception.type])>> >>),
     success |-> FALSE]

\* a constructor that stores base_url as given
ZenzapClient_keeps_separator(api_key, secret, base_url, timeout) ==
    [api_key |-> api_key, secret |-> secret,
     base_url |-> base_url, timeout |-> timeout]

\* ZenzapClient.__init__
ZenzapClient(api_key, secret, base_url, timeout) ==
    [api_key |-> api_key, secret |-> secret,
     base_url |-> rstrip(base_url, {"/"}), timeout |-> timeout]

----------------------------------------------------------------------------
(* Inputs *)

DefaultBaseUrl == <<"h","t","t","p","s",":","/","/","a","p","i",".","z","e","n","z","a","p",".","c","o">>
DefaultTimeout == 30
DefaultLimit == 50

\* the arguments the client is constructed with
ConstructorArgs ==
    { <<<<"k","1">>, <<"s","1">>, DefaultBaseUrl, DefaultTimeout>>,
      <<<<"k","2">>, <<"s","2">>, <<"h","t","t","p",":","/","/","x","/","/">>, 5>> }

TopicIds == { PyStr(<<"t","1">>), PyStr(<<"a"," ","b">>) }
ExternalIdPaths == { PyStr(<<"e","1">>), PyStr(<<"b","/","x",":","?">>), PyStr(<<>>) }
Names == { PyStr(<<"n">>), PyStr(<<>>) }
Texts == { PyStr(<<"a"," ","\"","b","\"">>), PyStr(<<>>) }
OptDescription == { PyNone, PyStr(<<>>), PyStr(<<"d">>) }
OptAssignee == { PyNone, PyStr(<<>>), PyStr(<<"m","1">>) }
OptExternalId == { PyNone, PyStr(<<>>), PyStr(<<"e","1">>) }
OptName == { PyNone, PyStr(<<>>), PyStr(<<"n">>) }
OptDueDate == { PyNone } \cup { PyInt(n) : n \in 0..MaxDueDate }
Limits == { PyNone, PyInt(0), PyInt(DefaultLimit) }
Cursors == { PyNone, PyStr(<<>>), PyStr(<<"c","/","1"," ","=">>) }
MemberIds == << PyStr(<<"m","1">>), PyStr(<<"m","2">>) >>

\* the member-id lists of 0..MaxMembers elements m1, m2, m1, ...
MemberLists ==
    { PyList([i \in 1..n |-> MemberIds[((i - 1) % 2) + 1]]) : n \in 0..MaxMembers }

\* the status codes of a completed HTTP exchange (three digits)
HttpStatuses == { 199, 200, 201, 299, 300, 404, 500 }

\* JSON documents the service answers with
JsonPayloads ==
    { PyDict(<< <<<<"i","d">>, PyStr(<<"a","b","c">>)>> >>),
      PyDict(<< <<<<"e","r","r","o","r">>, PyStr(<<"n","o","t"," ","f","o","u","n","d">>)>> >>) }

NotJson == [t |-> "not-json"]

\* response bodies: a JSON document in compact or spaced form, or a text
\* that is no JSON document
ResponseBodies ==
    { [text |-> json_dumps_sep(p, <<",">>, <<":">>), payload |-> p] : p \in JsonPayloads }
    \cup { [text |-> <<" ">> \o json_dumps_sep(p, <<","," ">>, <<":"," ">>) \o <<"\n">>,
            payload |-> p] : p \in JsonPayloads }
    \cup { [text |-> t, payload |-> NotJson] :
            t \in { <<"p","l","a","i","n"," ","t","e","x","t">>, <<" "," ","p","l","a","i","n"," ","t","e","x","t","\n">>, <<>>, <<" ","\n">> } }

\* transport failures: the exception class raised and its message
TransportFailures ==
    { [type |-> c, msg |-> m] :
        c \in {"ConnectionError", "SSLError", "ConnectTimeout", "ReadTimeout"},
        m \in { <<"t","i","m","e","d"," ","o","u","t">>, <<>> } }

NoCall == [op |-> "none", args |-> <<>>]
NoRequest == [method |-> "none"]
NoOutcome == [kind |-> "none"]
NoReturn == [kind |-> "none"]

----------------------------------------------------------------------------
(* The state machine: one caller invoking client operations in sequence *)

Init ==
    /\ \E a \in ConstructorArgs : client = ZenzapClient(a[1], a[2], a[3], a[4])
    /\ pc = "idle"
    /\ call = NoCall
    /\ req = NoRequest
    /\ wire = <<>>
    /\ srv = NoOutcome
    /\ ret = NoReturn

\* the limits the docstrings of the operations state for their arguments
TopicNameMax == 64
DescriptionMax == 10000
ExternalIdMax == 100
MemberIdsMax == 5
TextMax == 10000
TitleMax == 256

TooLong(v, max) == v.t = "str" /\ Len(v.s) > max
TooMany(v, max) == v.t = "list" /\ Len(v.l) > max
Empty(v) == (v.t = "str" /\ v.s = <<>>) \/ (v.t = "list" /\ v.l = <<>>)

\* the arguments are outside what the docstring of the operation allows
OutsideDocumentedLimits(op, args) ==
    CASE op = "create_topic" ->
            \/ Empty(args[1]) \/ TooLong(args[1], TopicNameMax)
            \/ Empty(args[2])
            \/ TooLong(args[3], DescriptionMax)
            \/ TooLong(args[4], ExternalIdMax)
      [] op = "update_topic" ->
            \/ args[2] = PyNone /\ args[3] = PyNone
            \/ Empty(args[2]) \/ TooLong(args[2], TopicNameMax)
            \/ TooLong(args[3], DescriptionMax)
      [] op \in {"add_topic_members", "remove_topic_members"} ->
            Empty(args[2]) \/ TooMany(args[2], MemberIdsMax)
      [] op = "send_message" ->
            \/ Empty(args[2]) \/ TooLong(args[2], TextMax)
            \/ TooLong(args[3], ExternalIdMax)
      [] op = "create_task" ->
            \/ Empty(args[2]) \/ TooLong(args[2], TitleMax)
            \/ TooLong(args[3], DescriptionMax)
            \/ TooLong(args[6], ExternalIdMax)
      [] OTHER -> FALSE

\* an operation that checks its arguments against the documented limits
\* and raises ValueError, sending nothing, when they are outside
EnterValidated(op, args, request) ==
    /\ pc = "idle"
    /\ call' = [op |-> op, args |-> args]
    /\ wire' = <<>>
    /\ srv' = NoOutcome
    /\ IF OutsideDocumentedLimits(op, args)
       THEN pc' = "returned" /\ req' = NoRequest
            /\ ret' = [kind |-> "raised", type |-> "ValueError"]
       ELSE pc' = "signed" /\ req' = request /\ ret' = NoReturn
    /\ UNCHANGED client

\* an operation is entered: its path or body is built and signed
Enter(op, args, request) ==
    /\ pc = "idle"
    /\ pc' = "signed"
    /\ call' = [op |-> op, args |-> args]
    /\ req' = request
    /\ wire' = <<>>
    /\ srv' = NoOutcome
    /\ ret' = NoReturn
    /\ UNCHANGED client

GetCurrentMember == Enter("get_current_member", <<>>, get_current_member(client))

ListMembers ==
    \E limit \in Limits, cursor \in Cursors :
        Enter("list_members", <<limit, cursor>>, list_members(client, limit, cursor))

CreateTopic ==
    \E name \in Names, members \in MemberLists,
       description \in OptDescription, external_id \in OptExternalId :
        Enter("create_topic", <<name, members, description, external_id>>,
              create_topic(client, name, members, description, external_id))

GetTopic ==
    \E topic_id \in TopicIds :
        Enter("get_topic", <<topic_id>>, get_topic(client, topic_id))

GetTopicByExternalId ==
    \E external_id \in ExternalIdPaths :
        Enter("get_topic_by_external_id", <<external_id>>,
              get_topic_by_external_id(client, external_id))

ListTopics ==
    \E limit \in Limits, cursor \in Cursors :
        Enter("list_topics", <<limit, cursor>>, list_topics(client, limit, cursor))

UpdateTopic ==
    \E topic_id \in TopicIds, name \in OptName, description \in OptDescription :
        Enter("update_topic", <<topic_id, name, description>>,
              update_topic(client, topic_id, name, description))

AddTopicMembers ==
    \E topic_id \in TopicIds, member_ids \in MemberLists :
        Enter("add_topic_members", <<topic_id, member_ids>>,
              add_topic_members(client, topic_id, member_ids))

RemoveTopicMembers ==
    \E topic_id \in TopicIds, member_ids \in MemberLists :
        Enter("remove_topic_members", <<topic_id, member_ids>>,
              remove_topic_members(client, topic_id, member_ids))

SendMessage ==
    \E topic_id \in TopicIds, text \in Texts, external_id \in OptExternalId :
        Enter("send_message", <<topic_id, text, external_id>>,
              send_message(client, topic_id, text, external_id))

CreateTask ==
    \E topic_id \in {PyStr(<<"t","1">>)}, title \in Names, description \in OptDescription,
       assignee \in OptAssignee, due_date \in OptDueDate, external_id \in OptExternalId :
        Enter("create_task", <<topic_id, title, description, assignee, due_date, external_id>>,
              create_task(client, topic_id, title, description, assignee, due_date, external_id))

\* requests.get / post / patch / delete is called: the request goes out
Send ==
    /\ pc = "signed"
    /\ pc' = "waiting"
    /\ wire' = Append(wire, req)
    /\ UNCHANGED <<client, call, req, srv, ret>>

\* the exchange completes with an HTTP response, which the operation
\* returns normalised
Respond(status_code, body) ==
    /\ pc = "waiting"
    /\ pc' = "returned"
    /\ srv' = [kind |-> "response", status_code |-> status_code,
               text |-> body.text, payload |-> body.payload]
    /\ ret' = [kind |-> "value",
               resp |-> from_response([status_code |-> status_code, text |-> body.text])]
    /\ UNCHANGED <<client, call, req, wire>>

HttpResponse ==
    \E status_code \in HttpStatuses, body \in ResponseBodies : Respond(status_code, body)

\* a transport failure after which the operation sends its request again
FailAndRetry(exception) ==
    /\ pc = "waiting"
    /\ pc' = "signed"
    /\ srv' = [kind |-> "exception", type |-> exception.type, msg |-> exception.msg]
    /\ UNCHANGED <<client, call, req, wire, ret>>

\* a transport failure after which the client doubles its timeout for the
\* calls to come
FailWithBackoff(exception) ==
    /\ pc = "waiting"
    /\ pc' = "returned"
    /\ srv' = [kind |-> "exception", type |-> exception.type, msg |-> exception.msg]
    /\ ret' = [kind |-> "value", resp |-> from_exception(exception)]
    /\ client' = [client EXCEPT !.timeout = IF @ < 100 THEN 2 * @ ELSE @]
    /\ UNCHANGED <<call, req, wire>>

\* the exchange fails in the transport: the library raises, and the
\* operation returns the normalised failure if its except clause catches
\* the exception, else the exception reaches the caller
Fail(exception) ==
    /\ pc = "waiting"
    /\ pc' = "returned"
    /\ srv' = [kind |-> "exception", type |-> exception.type, msg |-> exception.msg]
    /\ ret' = IF Caught(exception.type)
              THEN [kind |-> "value", resp |-> from_exception(exception)]
              ELSE [kind |-> "raised", type |-> exception.type]
    /\ UNCHANGED <<client, call, req, wire>>

TransportFailure == \E exception \in TransportFailures : Fail(exception)

\* the caller takes the result; nothing of the call is kept
Return ==
    /\ pc = "returned"
    /\ pc' = "idle"
    /\ call' = NoCall
    /\ req' = NoRequest
    /\ wire' = <<>>
    /\ srv' = NoOutcome
    /\ ret' = NoReturn
    /\ UNCHANGED client

Next ==
    \/ GetCurrentMember
    \/ ListMembers
    \/ CreateTopic
    \/ GetTopic
    \/ GetTopicByExternalId
    \/ ListTopics
    \/ UpdateTopic
    \/ AddTopicMembers
    \/ RemoveTopicMembers
    \/ SendMessage
    \/ CreateTask
    \/ Send
    \/ HttpResponse
    \/ TransportFailure
    \/ Return

Spec == Init /\ [][Next]_vars

----------------------------------------------------------------------------
(* Several callers sharing one client: every variable but client holds one *)
(* value for each thread, the locals of that thread's call                *)

NumThreads == 2

Threads == 1..NumThreads

\* getattr(client, op)(*args): the request the named operation builds
RequestOf(self, c) ==
    LET a == c.args
    IN  CASE c.op = "get_current_member" -> get_current_member(self)
          [] c.op = "list_members" -> list_members(self, a[1], a[2])
          [] c.op = "create_topic" -> create_topic(self, a[1], a[2], a[3], a[4])
          [] c.op = "get_topic" -> get_topic(self, a[1])
          [] c.op = "get_topic_by_external_id" -> get_topic_by_external_id(self, a[1])
          [] c.op = "list_topics" -> list_topics(self, a[1], a[2])
          [] c.op = "update_topic" -> update_topic(self, a[1], a[2], a[3])
          [] c.op = "add_topic_members" -> add_topic_members(self, a[1], a[2])
          [] c.op = "remove_topic_members" -> remove_topic_members(self, a[1], a[2])
          [] c.op = "send_message" -> send_message(self, a[1], a[2], a[3])
          [] c.op = "create_task" -> create_task(self, a[1], a[2], a[3], a[4], a[5], a[6])

\* the calls the threads make: a read with a query and a write with a body
ConcCalls ==
    { [op |-> "list_topics", args |-> <<PyInt(DefaultLimit), PyStr(<<"c","/","1"," ","=">>)>>],
      [op |-> "remove_topic_members",
       args |-> <<PyStr(<<"t","1">>), PyList(<<PyStr(<<"m","1">>)>>)>>] }

\* the outcomes of their exchanges
ConcResponses ==
    { [status_code |-> 404, text |-> <<"{","\"","e","r","r","o","r","\"",":","\"","n","o","t"," ","f","o","u","n","d","\"","}">>,
       payload |-> PyDict(<< <<<<"e","r","r","o","r">>, PyStr(<<"n","o","t"," ","f","o","u","n","d">>)>> >>)] }

ConcFailures == { [type |-> "ReadTimeout", msg |-> <<"t","i","m","e","d"," ","o","u","t">>] }

InitConc ==
    /\ \E a \in ConstructorArgs : client = ZenzapClient(a[1], a[2], a[3], a[4])
    /\ pc = [t \in Threads |-> "idle"]
    /\ call = [t \in Threads |-> NoCall]
    /\ req = [t \in Threads |-> NoRequest]
    /\ wire = [t \in Threads |-> <<>>]
    /\ srv = [t \in Threads |-> NoOutcome]
    /\ ret = [t \in Threads |-> NoReturn]

\* thread t enters an operation: the request is built and signed from the
\* arguments and the client's fields, into locals of the call
ConcEnter(t) ==
    \E c \in ConcCalls :
        /\ pc[t] = "idle"
        /\ pc' = [pc EXCEPT ![t] = "signed"]
        /\ call' = [call EXCEPT ![t] = c]
        /\ req' = [req EXCEPT ![t] = RequestOf(client, c)]
        /\ UNCHANGED <<client, wire, srv, ret>>

\* a request held in one place for all the calls of the client: a thread
\* sends the request of the first thread that has one ready
SentByShared(t) ==
    req[CHOOSE u \in Threads :
            /\ pc[u] = "signed"
            /\ \A v \in Threads : pc[v] = "signed" => u <= v]

\* what thread t hands to requests.<method>: url, headers and data are
\* locals of its call
SentBy(t) == req[t]

\* thread t calls requests.<method>, which opens a session of its own
ConcSend(t) ==
    /\ pc[t] = "signed"
    /\ pc' = [pc EXCEPT ![t] = "waiting"]
    /\ wire' = [wire EXCEPT ![t] = Append(@, SentBy(t))]
    /\ UNCHANGED <<client, call, req, srv, ret>>

\* a response object shared by the calls: normalising one exchange
\* overwrites the Response every returned call holds
ConcRespondShared(t) ==
    \E r \in ConcResponses :
        /\ pc[t] = "waiting"
        /\ pc' = [pc EXCEPT ![t] = "returned"]
        /\ srv' = [srv EXCEPT ![t] = [kind |-> "response", status_code |-> r.status_code,
                                      text |-> r.text, payload |-> r.payload]]
        /\ ret' = [u \in Threads |->
                    IF u = t \/ pc[u] = "returned"
                    THEN [kind |-> "value",
                          resp |-> from_response([status_code |-> r.status_code,
                                                  text |-> r.text])]
                    ELSE ret[u]]
        /\ UNCHANGED <<client, call, req, wire>>

\* the exchange of thread t completes and its call returns the normalised
\* response, a new ApiResponse
ConcRespond(t) ==
    \E r \in ConcResponses :
        /\ pc[t] = "waiting"
        /\ pc' = [pc EXCEPT ![t] = "returned"]
        /\ srv' = [srv EXCEPT ![t] = [kind |-> "response", status_code |-> r.status_code,
                                      text |-> r.text, payload |-> r.payload]]
        /\ ret' = [ret EXCEPT ![t] =
                    [kind |-> "value",
                     resp |-> from_response([status_code |-> r.status_code,
                                             text |-> r.text])]]
        /\ UNCHANGED <<client, call, req, wire>>

\* the exchange of thread t fails in the transport
ConcFail(t) ==
    \E e \in ConcFailures :
        /\ pc[t] = "waiting"
        /\ pc' = [pc EXCEPT ![t] = "returned"]
        /\ srv' = [srv EXCEPT ![t] = [kind |-> "exception", type |-> e.type, msg |-> e.msg]]
        /\ ret' = [ret EXCEPT ![t] =
                    IF Caught(e.type)
                    THEN [kind |-> "value", resp |-> from_exception(e)]
                    ELSE [kind |-> "raised", type |-> e.type]]
        /\ UNCHANGED <<client, call, req, wire>>

\* the caller of thread t takes the result; the locals of the call are gone
ConcReturn(t) ==
    /\ pc[t] = "returned"
    /\ pc' = [pc EXCEPT ![t] = "idle"]
    /\ call' = [call EXCEPT ![t] = NoCall]
    /\ req' = [req EXCEPT ![t] = NoRequest]
    /\ wire' = [wire EXCEPT ![t] = <<>>]
    /\ srv' = [srv EXCEPT ![t] = NoOutcome]
    /\ ret' = [ret EXCEPT ![t] = NoReturn]
    /\ UNCHANGED client

NextConc ==
    \E t \in Threads :
        \/ ConcEnter(t)
        \/ ConcSend(t)
        \/ ConcRespond(t)
        \/ ConcFail(t)
        \/ ConcReturn(t)

SpecConc == InitConc /\ [][NextConc]_vars

----------------------------------------------------------------------------
(* One caller passing arguments outside the documented limits *)

Repeat(c, n) == [i \in 1..n |-> c]

\* one more than the documented maximum, and the empty value
LongName == PyStr(Repeat("n", TopicNameMax + 1))
LongDescription == PyStr(Repeat("d", DescriptionMax + 1))
LongExternalId == PyStr(Repeat("e", ExternalIdMax + 1))
LongText == PyStr(Repeat("x", TextMax + 1))
LongTitle == PyStr(Repeat("t", TitleMax + 1))
ManyMemberIds == PyList([i \in 1..(MemberIdsMax + 1) |-> MemberIds[((i - 1) % 2) + 1]])
NoMemberIds == PyList(<<>>)
EmptyStr == PyStr(<<>>)
Topic1 == PyStr(<<"t","1">>)

CreateTopicUnchecked ==
    \E a \in { <<EmptyStr, NoMemberIds, PyNone, PyNone>>,
                <<LongName, ManyMemberIds, PyNone, LongExternalId>>,
                <<PyStr(<<"n">>), NoMemberIds, LongDescription, PyNone>> } :
        Enter("create_topic", a, create_topic(client, a[1], a[2], a[3], a[4]))

UpdateTopicUnchecked ==
    \E a \in { <<Topic1, PyNone, PyNone>>,
                <<Topic1, EmptyStr, PyNone>>,
                <<Topic1, LongName, LongDescription>> } :
        Enter("update_topic", a, update_topic(client, a[1], a[2], a[3]))

AddTopicMembersUnchecked ==
    \E member_ids \in { NoMemberIds, ManyMemberIds } :
        Enter("add_topic_members", <<Topic1, member_ids>>,
              add_topic_members(client, Topic1, member_ids))

RemoveTopicMembersUnchecked ==
    \E member_ids \in { NoMemberIds, ManyMemberIds } :
        Enter("remove_topic_members", <<Topic1, member_ids>>,
              remove_topic_members(client, Topic1, member_ids))

SendMessageUnchecked ==
    \E a \in { <<Topic1, EmptyStr, PyNone>>,
                <<Topic1, LongText, LongExternalId>> } :
        Enter("send_message", a, send_message(client, a[1], a[2], a[3]))

CreateTaskUnchecked ==
    \E a \in { <<Topic1, EmptyStr, PyNone, PyNone, PyNone, PyNone>>,
                <<Topic1, LongTitle, LongDescription, PyNone, PyNone, LongExternalId>> } :
        Enter("create_task", a, create_task(client, a[1], a[2], a[3], a[4], a[5], a[6]))

NextUnchecked ==
    \/ CreateTopicUnchecked
    \/ UpdateTopicUnchecked
    \/ AddTopicMembersUnchecked
    \/ RemoveTopicMembersUnchecked
    \/ SendMessageUnchecked
    \/ CreateTaskUnchecked
    \/ Send
    \/ HttpResponse
    \/ TransportFailure
    \/ Return

SpecUnchecked == Init /\ [][NextUnchecked]_vars

----------------------------------------------------------------------------
(* The callers and the Responses they hold *)

\* @dataclass without frozen=True: assigning to a field of an ApiResponse
\* sets it
ApiResponseFrozen == FALSE

\* the caller of thread t assigns to a field of the Response its call
\* returned; on a frozen dataclass the assignment raises and sets nothing
Assign(t, field, value) ==
    /\ pc[t] = "returned"
    /\ ret[t].kind = "value"
    /\ ~ApiResponseFrozen
    /\ ret' = [ret EXCEPT ![t] =
                [kind |-> "value", resp |-> [ret[t].resp EXCEPT ![field] = value]]]
    /\ UNCHANGED <<client, pc, call, req, wire, srv>>

CallerAssigns ==
    \E t \in Threads :
        \/ Assign(t, "status", 204)
        \/ Assign(t, "success", TRUE)
        \/ Assign(t, "data", PyDict(<<>>))

NextCaller == NextConc \/ CallerAssigns

SpecCaller == InitConc /\ [][NextCaller]_vars

----------------------------------------------------------------------------
(* Two clients used side by side: every variable holds one value for each *)
(* of them                                                                *)

Clients == {1, 2}

\* the arguments the two are constructed with: secrets, api keys and base
\* urls that agree or differ
PairConstructorArgs ==
    { <<<<"k","1">>, <<"s","1">>, DefaultBaseUrl, DefaultTimeout>>,
      <<<<"k","2">>, <<"s","1">>, <<"h","t","t","p",":","/","/","x","/","/">>, 5>>,
      <<<<"k","1">>, <<"s","2">>, DefaultBaseUrl, DefaultTimeout>> }

\* the calls made on them: writes whose bodies agree or differ, through
\* POST and DELETE, on one topic or another, and reads
PairCalls ==
    { [op |-> "add_topic_members", args |-> <<PyStr(<<"t","1">>), PyList(<<MemberIds[1]>>)>>],
      [op |-> "remove_topic_members", args |-> <<PyStr(<<"t","1">>), PyList(<<MemberIds[1]>>)>>],
      [op |-> "remove_topic_members", args |-> <<PyStr(<<"a"," ","b">>), PyList(<<MemberIds[1]>>)>>],
      [op |-> "add_topic_members", args |-> <<PyStr(<<"t","1">>), PyList(<<MemberIds[2]>>)>>],
      [op |-> "get_topic", args |-> <<PyStr(<<"t","1">>)>>],
      [op |-> "list_topics", args |-> <<PyInt(DefaultLimit), PyNone>>] }

InitPair ==
    /\ client \in [Clients -> { ZenzapClient(a[1], a[2], a[3], a[4]) : a \in PairConstructorArgs }]
    /\ pc = [i \in Clients |-> "idle"]
    /\ call = [i \in Clients |-> NoCall]
    /\ req = [i \in Clients |-> NoRequest]
    /\ wire = [i \in Clients |-> <<>>]
    /\ srv = [i \in Clients |-> NoOutcome]
    /\ ret = [i \in Clients |-> NoReturn]

\* an operation of client i is entered: its request is built and signed
PairEnter(i) ==
    \E c \in PairCalls :
        /\ pc[i] = "idle"
        /\ pc' = [pc EXCEPT ![i] = "signed"]
        /\ call' = [call EXCEPT ![i] = c]
        /\ req' = [req EXCEPT ![i] = RequestOf(client[i], c)]
        /\ UNCHANGED <<client, wire, srv, ret>>

\* the request goes out
PairSend(i) ==
    /\ pc[i] = "signed"
    /\ pc' = [pc EXCEPT ![i] = "waiting"]
    /\ wire' = [wire EXCEPT ![i] = Append(@, req[i])]
    /\ UNCHANGED <<client, call, req, srv, ret>>

\* the exchange completes and the operation returns the normalised response
PairRespond(i) ==
    \E r \in ConcResponses :
        /\ pc[i] = "waiting"
        /\ pc' = [pc EXCEPT ![i] = "returned"]
        /\ srv' = [srv EXCEPT ![i] = [kind |-> "response", status_code |-> r.status_code,
                                      text |-> r.text, payload |-> r.payload]]
        /\ ret' = [ret EXCEPT ![i] =
                    [kind |-> "value",
                     resp |-> from_response([status_code |-> r.status_code,
                                             text |-> r.text])]]
        /\ UNCHANGED <<client, call, req, wire>>

\* the exchange fails in the transport
PairFail(i) ==
    \E e \in ConcFailures :
        /\ pc[i] = "waiting"
        /\ pc' = [pc EXCEPT ![i] = "returned"]
        /\ srv' = [srv EXCEPT ![i] = [kind |-> "exception", type |-> e.type, msg |-> e.msg]]
        /\ ret' = [ret EXCEPT ![i] =
                    IF Caught(e.type)
                    THEN [kind |-> "value", resp |-> from_exception(e)]
                    ELSE [kind |-> "raised", type |-> e.type]]
        /\ UNCHANGED <<client, call, req, wire>>

\* the caller takes the result
PairReturn(i) ==
    /\ pc[i] = "returned"
    /\ pc' = [pc EXCEPT ![i] = "idle"]
    /\ call' = [call EXCEPT ![i] = NoCall]
    /\ req' = [req EXCEPT ![i] = NoRequest]
    /\ wire' = [wire EXCEPT ![i] = <<>>]
    /\ srv' = [srv EXCEPT ![i] = NoOutcome]
    /\ ret' = [ret EXCEPT ![i] = NoReturn]
    /\ UNCHANGED client

NextPair ==
    \E i \in Clients :
        \/ PairEnter(i)
        \/ PairSend(i)
        \/ PairRespond(i)
        \/ PairFail(i)
        \/ PairReturn(i)

SpecPair == InitPair /\ [][NextPair]_vars

----------------------------------------------------------------------------
(* examples/06_cleanup_demo_topics.py: the functions of the script *)

\* d.get(key) and d.get(key, default) on a dict
Get(d, key) == IF DictHas(d.o, key) THEN DictGet(d.o, key) ELSE PyNone
GetDefault(d, key, default) == IF DictHas(d.o, key) THEN DictGet(d.o, key) ELSE default

\* x or y
Or(x, y) == IF Truthy(x) THEN x ELSE y

\* s.startswith(prefix)
StartsWith(s, prefix) ==
    Len(prefix) <= Len(s) /\ SubSeq(s, 1, Len(prefix)) = prefix

\* sub in s, for strings
Contains(s, sub) ==
    \E i \in 1..(Len(s) - Len(sub) + 1) : SubSeq(s, i, i + Len(sub) - 1) = sub

\* s.lower()
Lower(s) ==
    LET UpperCase == <<"A","B","C","D","E","F","G","H","I","J","K","L","M","N","O","P","Q","R","S","T","U","V","W","X","Y","Z">>
        LowerCase == <<"a","b","c","d","e","f","g","h","i","j","k","l","m","n","o","p","q","r","s","t","u","v","w","x","y","z">>
    IN  [i \in DOMAIN s |->
            IF \E k \in DOMAIN UpperCase : UpperCase[k] = s[i]
            THEN LowerCase[CHOOSE k \in DOMAIN UpperCase : UpperCase[k] = s[i]]
            ELSE s[i]]

DEMO_PREFIXES ==
    << <<"Q","u","i","c","k","s","t","a","r","t"," ","D","e","m","o"," ">>,
       <<"R","e","g","u","l","a","r"," ","T","o","p","i","c"," ">>,
       <<"P","r","o","j","e","c","t"," ","U","p","d","a","t","e","s"," ","C","h","a","n","n","e","l">>,
       <<"U","p","d","a","t","e","d"," ","T","o","p","i","c"," ","N","a","m","e"," ">>,
       <<"M","e","s","s","a","g","e"," ","D","e","m","o"," ">>,
       <<"T","a","s","k"," ","D","e","m","o"," ">>,
       <<"Q","1"," ","2","0","2","4"," ","P","r","o","d","u","c","t"," ","L","a","u","n","c","h">> >>

parse_topics_payload(payload) ==
    IF payload.t = "list" THEN [topics |-> payload.l, next_cursor |-> PyNone]
    ELSE IF payload.t # "obj" THEN [topics |-> <<>>, next_cursor |-> PyNone]
    ELSE LET first == Get(payload, <<"t","o","p","i","c","s">>)
             topics == IF first = PyNone
                       THEN GetDefault(payload, <<"d","a","t","a">>, PyList(<<>>))
                       ELSE first
             next_cursor == Get(payload, <<"n","e","x","t","C","u","r","s","o","r">>)
         IN  [topics |-> IF topics.t = "list" THEN topics.l ELSE <<>>,
              next_cursor |-> IF next_cursor = PyNone
                              THEN Get(payload, <<"c","u","r","s","o","r">>)
                              ELSE next_cursor]

is_demo_topic(topic) ==
    LET name == Strip(Or(Get(topic, <<"n","a","m","e">>), PyStr(<<>>)).s)
        description == Lower(Strip(Or(Get(topic, <<"d","e","s","c","r","i","p","t","i","o","n">>), PyStr(<<>>)).s))
        external_id == Strip(Or(Get(topic, <<"e","x","t","e","r","n","a","l","I","d">>), PyStr(<<>>)).s)
    IN  \/ \E k \in DOMAIN DEMO_PREFIXES : StartsWith(name, DEMO_PREFIXES[k])
        \/ external_id # <<>> /\ Contains(external_id, <<"p","r","o","j","e","c","t","-">>)
        \/ Contains(description, <<"q","u","i","c","k","s","t","a","r","t"," ","e","x","a","m","p","l","e">>)
        \/ Contains(description, <<"p","r","o","j","e","c","t"," ","i","n","t","e","g","r","a","t","i","o","n">>)

\* value in values, for a list
In(value, values) == \E i \in DOMAIN values : values[i] = value

----------------------------------------------------------------------------
(* examples/06_cleanup_demo_topics.py: the inputs of a run *)

\* --max-pages ranges over 0..MaxPages
MaxPages == 2

\* the default of --limit
PageLimit == 100

BotId == PyStr(<<"b","o","t">>)

Obj1(k1, v1) == PyDict(<< <<k1, v1>> >>)
Obj2(k1, v1, k2, v2) == PyDict(<< <<k1, v1>>, <<k2, v2>> >>)
Obj3(k1, v1, k2, v2, k3, v3) == PyDict(<< <<k1, v1>>, <<k2, v2>>, <<k3, v3>> >>)

\* a demo topic by its name, the bot among its members
TopicDemoBot ==
    Obj3(<<"i","d">>, PyStr(<<"t","1">>), <<"n","a","m","e">>, PyStr(<<"T","a","s","k"," ","D","e","m","o"," ","1">>),
         <<"m","e","m","b","e","r","s">>, PyList(<<PyStr(<<"m","1">>), BotId>>))
\* a demo topic by its external id, the bot not among its members
TopicDemoOthers ==
    Obj3(<<"i","d">>, PyStr(<<"t","2">>), <<"e","x","t","e","r","n","a","l","I","d">>, PyStr(<<"p","r","o","j","e","c","t","-","1">>),
         <<"m","e","m","b","e","r","s">>, PyList(<<PyStr(<<"m","1">>)>>))
\* a demo topic by its description only (the name lacks the space the
\* prefix ends with), without id, the bot its only member
TopicDemoNoId ==
    Obj3(<<"n","a","m","e">>, PyStr(<<" ","Q","u","i","c","k","s","t","a","r","t"," ","D","e","m","o"," ">>),
         <<"d","e","s","c","r","i","p","t","i","o","n">>, PyStr(<<"A"," ","Q","u","i","c","k","s","t","a","r","t"," ","E","x","a","m","p","l","e"," ">>),
         <<"m","e","m","b","e","r","s">>, PyList(<<BotId>>))
\* a demo topic by its name, its members null
TopicDemoNoMembers ==
    Obj3(<<"i","d">>, PyStr(<<"t","4">>), <<"n","a","m","e">>, PyStr(<<"M","e","s","s","a","g","e"," ","D","e","m","o"," ","x">>),
         <<"m","e","m","b","e","r","s">>, PyNone)
\* no demo topic, the bot among its members
TopicOtherBot ==
    Obj3(<<"i","d">>, PyStr(<<"t","5">>), <<"n","a","m","e">>, PyStr(<<"T","a","s","k"," ","D","e","m","o","s">>),
         <<"m","e","m","b","e","r","s">>, PyList(<<BotId>>))

\* a completed exchange answering with this document; topics and next
\* are what the document lists and where it points next
Page(status_code, payload, topics, next) ==
    [kind |-> "response", status_code |-> status_code,
     text |-> json_dumps_sep(payload, <<",">>, <<":">>),
     topics |-> topics, next |-> next]

NotFound == Obj1(<<"e","r","r","o","r">>, PyStr(<<"n","o","t"," ","f","o","u","n","d">>))

TimedOut == [kind |-> "exception", type |-> "ReadTimeout", msg |-> <<"t","i","m","e","d"," ","o","u","t">>]

\* the outcomes of list_topics
ListOutcomes ==
    { Page(200, Obj2(<<"t","o","p","i","c","s">>, PyList(<<TopicDemoBot, TopicDemoOthers>>),
                     <<"n","e","x","t","C","u","r","s","o","r">>, PyStr(<<"c","1">>)),
           <<TopicDemoBot, TopicDemoOthers>>, PyStr(<<"c","1">>)),
      Page(200, Obj2(<<"d","a","t","a">>, PyList(<<TopicDemoNoId, TopicOtherBot>>),
                     <<"c","u","r","s","o","r">>, PyStr(<<"c","2">>)),
           <<TopicDemoNoId, TopicOtherBot>>, PyStr(<<"c","2">>)),
      Page(201, Obj3(<<"t","o","p","i","c","s">>, PyList(<<TopicDemoNoMembers>>),
                     <<"n","e","x","t","C","u","r","s","o","r">>, PyStr(<<>>), <<"c","u","r","s","o","r">>, PyStr(<<"c","2">>)),
           <<TopicDemoNoMembers>>, PyStr(<<>>)),
      Page(200, PyList(<<TopicOtherBot>>), <<TopicOtherBot>>, PyNone),
      Page(200, Obj2(<<"t","o","p","i","c","s">>, PyNone, <<"d","a","t","a">>, PyStr(<<"x">>)), <<>>, PyNone),
      Page(500, NotFound, <<>>, PyNone),
      TimedOut }

\* the outcomes of get_current_member
MeOutcomes ==
    { Page(200, Obj1(<<"i","d">>, BotId), <<>>, PyNone),
      Page(200, Obj1(<<"i","d">>, PyStr(<<>>)), <<>>, PyNone),
      Page(200, Obj1(<<"n","a","m","e">>, BotId), <<>>, PyNone),
      Page(404, Obj1(<<"i","d">>, BotId), <<>>, PyNone),
      TimedOut }

\* the outcomes of remove_topic_members
RemoveOutcomes ==
    { Page(200, PyDict(<<>>), <<>>, PyNone),
      Page(404, NotFound, <<>>, PyNone),
      TimedOut }

\* os.getenv of BOT_API_KEY and BOT_SECRET: a value, or None when unset
Environments ==
    { [api_key |-> PyStr(<<"k","1">>), secret |-> PyStr(<<"s","1">>)],
      [api_key |-> PyNone, secret |-> PyStr(<<"s","1">>)],
      [api_key |-> PyStr(<<"k","1">>), secret |-> PyStr(<<>>)] }

NoClient == [api_key |-> <<>>, secret |-> <<>>, base_url |-> <<>>, timeout |-> 0]

----------------------------------------------------------------------------
(* examples/06_cleanup_demo_topics.py: one run of main.  call holds the    *)
(* arguments and locals of main, wire the requests sent so far, srv the   *)
(* outcomes of their exchanges, ret the exit status                       *)

InitCleanup ==
    /\ client = NoClient
    /\ pc = "start"
    /\ \E apply \in BOOLEAN, max_pages \in 0..MaxPages, env \in Environments :
            call = [apply |-> apply, max_pages |-> max_pages, env |-> env,
                    bot_id |-> PyNone, page |-> 1, cursor |-> PyNone,
                    all_topics |-> <<>>, demo_topics |-> <<>>, index |-> 1,
                    left_topics_count |-> 0, failed_topics |-> 0]
    /\ req = NoRequest
    /\ wire = <<>>
    /\ srv = <<>>
    /\ ret = NoReturn

\* sys.exit(status), or the return of main (status 0)
Exit(status) ==
    /\ pc' = "exited"
    /\ ret' = [kind |-> "exit", status |-> status]

\* the ApiResponse an operation returns for this outcome of its exchange
Exchange(outcome) ==
    IF outcome.kind = "response"
    THEN from_response([status_code |-> outcome.status_code, text |-> outcome.text])
    ELSE from_exception([type |-> outcome.type, msg |-> outcome.msg])

\* the request is sent and its exchange has this outcome
Sent(request, outcome) ==
    /\ req' = request
    /\ wire' = Append(wire, request)
    /\ srv' = Append(srv, outcome)

\* lines 97-109: arguments, environment, construction of the client
Configure ==
    /\ pc = "start"
    /\ IF ~Truthy(call.env.api_key) \/ ~Truthy(call.env.secret)
       THEN Exit(1) /\ UNCHANGED client
       ELSE /\ client' = ZenzapClient(call.env.api_key.s, call.env.secret.s,
                                      DefaultBaseUrl, DefaultTimeout)
            /\ pc' = "authenticate"
            /\ UNCHANGED ret
    /\ UNCHANGED <<call, req, wire, srv>>

\* lines 111-129: the bot asks who it is
Authenticate ==
    /\ pc = "authenticate"
    /\ \E outcome \in MeOutcomes :
        LET me_response == Exchange(outcome)
            bot_id == Get(me_response.data, <<"i","d">>)
        IN  /\ Sent(get_current_member(client), outcome)
            /\ IF ~me_response.success THEN Exit(1) /\ UNCHANGED call
               ELSE IF ~Truthy(bot_id) THEN Exit(1) /\ UNCHANGED call
               ELSE /\ pc' = "list"
                    /\ call' = [call EXCEPT !.bot_id = bot_id, !.page = 1,
                                            !.cursor = PyNone, !.all_topics = <<>>]
                    /\ UNCHANGED ret
    /\ UNCHANGED client

\* a pagination loop that goes on when the page points at the cursor it
\* was asked with
ListPageFollowingAnyCursor ==
    /\ pc = "list"
    /\ call.page <= call.max_pages
    /\ \E outcome \in ListOutcomes :
        LET response == Exchange(outcome)
            parsed == parse_topics_payload(response.data)
            all_topics == call.all_topics \o parsed.topics
        IN  /\ Sent(list_topics(client, PyInt(PageLimit), call.cursor), outcome)
            /\ IF ~response.success THEN Exit(1) /\ UNCHANGED call
               ELSE IF ~Truthy(parsed.next_cursor)
               THEN /\ pc' = "select"
                    /\ call' = [call EXCEPT !.all_topics = all_topics]
                    /\ UNCHANGED ret
               ELSE /\ pc' = "list"
                    /\ call' = [call EXCEPT !.all_topics = all_topics,
                                            !.cursor = parsed.next_cursor,
                                            !.page = @ + 1]
                    /\ UNCHANGED ret
    /\ UNCHANGED client

\* lines 131-143: one pass of the pagination loop
ListPage ==
    /\ pc = "list"
    /\ call.page <= call.max_pages
    /\ \E outcome \in ListOutcomes :
        LET response == Exchange(outcome)
            parsed == parse_topics_payload(response.data)
            all_topics == call.all_topics \o parsed.topics
        IN  /\ Sent(list_topics(client, PyInt(PageLimit), call.cursor), outcome)
            /\ IF ~response.success THEN Exit(1) /\ UNCHANGED call
               ELSE IF ~Truthy(parsed.next_cursor) \/ parsed.next_cursor = call.cursor
               THEN /\ pc' = "select"
                    /\ call' = [call EXCEPT !.all_topics = all_topics]
                    /\ UNCHANGED ret
               ELSE /\ pc' = "list"
                    /\ call' = [call EXCEPT !.all_topics = all_topics,
                                            !.cursor = parsed.next_cursor,
                                            !.page = @ + 1]
                    /\ UNCHANGED ret
    /\ UNCHANGED client

\* lines 144-145: the loop ran max_pages passes without a break
PagesExhausted ==
    /\ pc = "list"
    /\ call.page > call.max_pages
    /\ pc' = "select"
    /\ UNCHANGED <<client, call, req, wire, srv, ret>>

\* lines 147-157: the demo topics among those listed
SelectDemoTopics ==
    /\ pc = "select"
    /\ LET Test(topic) == is_demo_topic(topic)
           demo_topics == SelectSeq(call.all_topics, Test)
       IN  IF demo_topics = <<>>
           THEN Exit(0) /\ UNCHANGED call
           ELSE /\ pc' = "remove"
                /\ call' = [call EXCEPT !.demo_topics = demo_topics, !.index = 1,
                                        !.left_topics_count = 0, !.failed_topics = 0]
                /\ UNCHANGED ret
    /\ UNCHANGED <<client, req, wire, srv>>

\* a removal loop without the test of args.apply
VisitTopicAlwaysApplying ==
    /\ pc = "remove"
    /\ call.index <= Len(call.demo_topics)
    /\ LET topic == call.demo_topics[call.index]
           topic_id == GetDefault(topic, <<"i","d">>, PyStr(<<>>))
           current_members == Or(Get(topic, <<"m","e","m","b","e","r","s">>), PyList(<<>>))
           bot_is_member == In(call.bot_id, current_members.l)
       IN  \/ /\ ~bot_is_member
              /\ call' = [call EXCEPT !.index = @ + 1]
              /\ UNCHANGED <<req, wire, srv>>
           \/ /\ bot_is_member
              /\ \E outcome \in RemoveOutcomes :
                    LET remove_response == Exchange(outcome)
                    IN  /\ Sent(remove_topic_members(client, topic_id,
                                                     PyList(<<call.bot_id>>)), outcome)
                        /\ call' = IF remove_response.success
                                   THEN [call EXCEPT !.index = @ + 1,
                                                     !.left_topics_count = @ + 1]
                                   ELSE [call EXCEPT !.index = @ + 1,
                                                     !.failed_topics = @ + 1]
    /\ UNCHANGED <<client, pc, ret>>

\* lines 159-184: one pass of the removal loop
VisitTopic ==
    /\ pc = "remove"
    /\ call.index <= Len(call.demo_topics)
    /\ LET topic == call.demo_topics[call.index]
           topic_id == GetDefault(topic, <<"i","d">>, PyStr(<<>>))
           current_members == Or(Get(topic, <<"m","e","m","b","e","r","s">>), PyList(<<>>))
           bot_is_member == In(call.bot_id, current_members.l)
       IN  \/ /\ ~bot_is_member \/ ~call.apply
              /\ call' = [call EXCEPT !.index = @ + 1]
              /\ UNCHANGED <<req, wire, srv>>
           \/ /\ bot_is_member
              /\ call.apply
              /\ \E outcome \in RemoveOutcomes :
                    LET remove_response == Exchange(outcome)
                    IN  /\ Sent(remove_topic_members(client, topic_id,
                                                     PyList(<<call.bot_id>>)), outcome)
                        /\ call' = IF remove_response.success
                                   THEN [call EXCEPT !.index = @ + 1,
                                                     !.left_topics_count = @ + 1]
                                   ELSE [call EXCEPT !.index = @ + 1,
                                                     !.failed_topics = @ + 1]
    /\ UNCHANGED <<client, pc, ret>>

\* lines 186-201: the summary and the exit status
Summarize ==
    /\ pc = "remove"
    /\ call.index > Len(call.demo_topics)
    /\ Exit(IF call.apply /\ call.failed_topics # 0 THEN 1 ELSE 0)
    /\ UNCHANGED <<client, call, req, wire, srv>>

NextCleanup ==
    \/ Configure
    \/ Authenticate
    \/ ListPage
    \/ PagesExhausted
    \/ SelectDemoTopics
    \/ VisitTopic
    \/ Summarize

SpecCleanup == InitCleanup /\ [][NextCleanup]_vars

----------------------------------------------------------------------------
(* Properties *)

\* the requests of the current call: the one prepared and those sent
Requests == (IF pc = "idle" THEN {} ELSE {req}) \cup { wire[i] : i \in DOMAIN wire }

IsWrite(r) == r.method \in {"POST", "PATCH", "DELETE"}

Signature(r) == r.headers["X-Signature"]

Count(s, c) == Cardinality({ i \in DOMAIN s : s[i] = c })

\* the order in which the operations insert the keys of their bodies
InsertionOrder ==
    << <<"t","o","p","i","c","I","d">>, <<"t","i","t","l","e">>, <<"t","e","x","t">>, <<"n","a","m","e">>, <<"m","e","m","b","e","r","s">>, <<"d","e","s","c","r","i","p","t","i","o","n">>,
       <<"a","s","s","i","g","n","e","e">>, <<"d","u","e","D","a","t","e">>, <<"e","x","t","e","r","n","a","l","I","d">>, <<"m","e","m","b","e","r","I","d","s">> >>

OrderIndex(key) == CHOOSE i \in DOMAIN InsertionOrder : InsertionOrder[i] = key

\* keys are keys of InsertionOrder, in that order, none twice
InInsertionOrder(keys) ==
    /\ \A i \in DOMAIN keys : \E j \in DOMAIN InsertionOrder : InsertionOrder[j] = keys[i]
    /\ \A i, j \in DOMAIN keys : i < j => OrderIndex(keys[i]) < OrderIndex(keys[j])

\* the dict a sent body decodes to
SentBody(r) == json_loads(r.data).v.o

\* C1: the X-Signature of every write request is the HMAC-SHA256, keyed by
\* the client's secret, of exactly the string sent as its body, and that
\* string is the compact JSON form of the body with its keys in insertion
\* order.
C1_SignatureOfSentBody ==
    \A r \in Requests : IsWrite(r) =>
        LET decoded == json_loads(r.data)
        IN  /\ Signature(r) = hmac_sha256_hexdigest(client.secret, r.data)
            /\ decoded.ok
            /\ decoded.v.t = "obj"
            /\ json_dumps_sep(decoded.v, <<",">>, <<":">>) = r.data
            /\ InInsertionOrder(DictKeys(decoded.v.o))
            /\ (call = [op |-> "create_task",
                        args |-> <<PyStr(<<"t","1">>), PyStr(<<"n">>), PyNone, PyNone,
                                   PyInt(0), PyNone>>]
                => r.data = <<"{","\"","t","o","p","i","c","I","d","\"",":","\"","t","1","\"",",","\"","t","i","t","l","e","\"",":","\"","n","\"",",","\"","d","u","e","D","a","t","e","\"",":","0","}">>)

C1_Witness ==
    /\ pc = "waiting"
    /\ wire = <<req>>
    /\ call.op = "create_task"
    /\ Len(SentBody(wire[1])) = 6

\* the path of a request: its URL without the client's base_url
PathOf(r) == SubSeq(r.url, Len(client.base_url) + 1, Len(r.url))

\* the characters the query string of a built path is made of
QueryChars == AlwaysSafe \cup {"%", "+", "=", "&"}

\* C2: for every read request the signed payload is the request path with
\* its URL-encoded query string and without base_url, the URL requested is
\* base_url followed by that path, and a path built from an empty query has
\* no "?" (an operation without query parameters adds none to its path).
C2_SignatureOfPath ==
    \A r \in Requests : r.method = "GET" =>
        /\ call.op \in {"get_current_member", "list_members", "get_topic",
                        "get_topic_by_external_id", "list_topics"}
        /\ r.data = NoData
        /\ SubSeq(r.url, 1, Len(client.base_url)) = client.base_url
        /\ Signature(r) = hmac_sha256_hexdigest(client.secret, PathOf(r))
        /\ PathOf(r)[1] = "/"
        /\ (call.op \in {"get_current_member", "get_topic_by_external_id"} =>
                Count(PathOf(r), "?") = 0)
        /\ (call.op = "get_topic" =>
                Count(PathOf(r), "?") = Count(call.args[1].s, "?"))
        /\ (call.op \in {"list_members", "list_topics"} =>
                LET path == PathOf(r)
                    resource == IF call.op = "list_members"
                                THEN <<"/","v","2","/","m","e","m","b","e","r","s">> ELSE <<"/","v","2","/","t","o","p","i","c","s">>
                IN  IF call.args[1] = PyNone /\ call.args[2] = PyNone
                    THEN path = resource
                    ELSE /\ Len(path) > Len(resource) + 1
                         /\ SubSeq(path, 1, Len(resource) + 1) = resource \o <<"?">>
                         /\ \A i \in (Len(resource) + 2)..Len(path) : path[i] \in QueryChars)

C2_Witness ==
    /\ pc = "waiting"
    /\ wire = <<req>>
    /\ call.op = "list_topics"
    /\ call.args = <<PyInt(DefaultLimit), PyStr(<<"c","/","1"," ","=">>)>>
    /\ PathOf(wire[1]) = <<"/","v","2","/","t","o","p","i","c","s","?","l","i","m","i","t","=","5","0","&","c","u","r","s","o","r","=","c","%","2","F","1","+","%","3","D">>

\* C3: a transport failure never reaches the caller as an exception: the
\* operation returns status 0, success false and data with the error
\* message and the exception's class name; and only a transport failure
\* gives status 0.
C3_TransportFailureReturned ==
    /\ ret.kind # "raised"
    /\ (srv.kind = "exception" =>
            /\ ret.kind = "value"
            /\ ret.resp.status = 0
            /\ ret.resp.success = FALSE
            /\ DictKeys(ret.resp.data.o) = << <<"e","r","r","o","r">>, <<"t","y","p","e">> >>
            /\ DictGet(ret.resp.data.o, <<"e","r","r","o","r">>) = PyStr(srv.msg)
            /\ DictGet(ret.resp.data.o, <<"t","y","p","e">>) = PyStr(ClassName[srv.type]))
    /\ (ret.kind = "value" /\ ret.resp.status = 0 => srv.kind = "exception")

C3_Witness ==
    /\ pc = "returned"
    /\ srv.kind = "exception"
    /\ srv.type = "ReadTimeout"
    /\ ret.kind = "value"
    /\ ret.resp.status = 0

\* C4: every Response returned has success true exactly when
\* 200 <= status < 300.
C4_SuccessIffStatus2xx ==
    ret.kind = "value" =>
        (ret.resp.success <=> (200 <= ret.resp.status /\ ret.resp.status < 300))

C4_Witness ==
    /\ pc = "returned"
    /\ ret.kind = "value"
    /\ ret.resp.status = 300
    /\ ~ret.resp.success

\* C5: an HTTP status outside [200,300) raises nothing: the Response has
\* that status, success false and, the body being a JSON document, that
\* document as data.
C5_HttpErrorReturned ==
    (srv.kind = "response" /\ ~(200 <= srv.status_code /\ srv.status_code < 300)) =>
        /\ ret.kind = "value"
        /\ ret.resp.status = srv.status_code
        /\ ret.resp.success = FALSE
        /\ (srv.payload # NotJson => ret.resp.data = srv.payload)

C5_Witness ==
    /\ pc = "returned"
    /\ srv.kind = "response"
    /\ srv.status_code = 404
    /\ srv.text = <<"{","\"","e","r","r","o","r","\"",":","\"","n","o","t"," ","f","o","u","n","d","\"","}">>
    /\ ret.resp.data = PyDict(<< <<<<"e","r","r","o","r">>, PyStr(<<"n","o","t"," ","f","o","u","n","d">>)>> >>)

\* C6: each call performs exactly one network request, sent after the
\* request is built and signed and before the result is normalised; no
\* outcome makes the operation send again.
C6_OneRequestPerCall ==
    /\ [](/\ (pc = "idle" => wire = <<>>)
          /\ (pc = "signed" =>
                /\ wire = <<>>
                /\ ret = NoReturn
                /\ "X-Signature" \in DOMAIN req.headers)
          /\ (pc = "waiting" => wire = <<req>> /\ ret = NoReturn)
          /\ (pc = "returned" => wire = <<req>> /\ ret # NoReturn /\ srv # NoOutcome))
    /\ [][wire' # wire =>
            \/ (pc = "signed" /\ wire = <<>> /\ wire' = <<req>> /\ ret' = NoReturn)
            \/ (pc = "returned" /\ pc' = "idle" /\ wire' = <<>>)]_vars

C6_Witness ==
    /\ pc = "returned"
    /\ srv.kind = "exception"
    /\ Len(wire) = 1
    /\ call.op = "list_topics"

\* C7: every request carries Authorization: Bearer <api_key> and the
\* X-Signature computed for that request; write requests carry
\* Content-Type: application/json as well, read requests no Content-Type.
C7_Headers ==
    \A r \in Requests :
        /\ r.method \in {"GET", "POST", "PATCH", "DELETE"}
        /\ r.headers["Authorization"] = <<"B","e","a","r","e","r"," ">> \o client.api_key
        /\ Signature(r) = hmac_sha256_hexdigest(client.secret,
                                IF IsWrite(r) THEN r.data ELSE PathOf(r))
        /\ (IsWrite(r) =>
                /\ DOMAIN r.headers = {"Authorization", "X-Signature", "Content-Type"}
                /\ r.headers["Content-Type"] = <<"a","p","p","l","i","c","a","t","i","o","n","/","j","s","o","n">>)
        /\ (r.method = "GET" => DOMAIN r.headers = {"Authorization", "X-Signature"})

C7_Witness ==
    /\ pc = "waiting"
    /\ wire = <<req>>
    /\ wire[1].method = "GET"
    /\ "Content-Type" \notin DOMAIN wire[1].headers
    /\ wire[1].headers["Authorization"] = <<"B","e","a","r","e","r"," ","k","2">>

\* a str argument that is neither None nor empty
NonEmpty(v) == v # PyNone /\ v.s # <<>>

\* key is in dict d exactly when present holds, and then with this value
HasIff(d, key, present, value) ==
    /\ DictHas(d, key) <=> present
    /\ (present => DictGet(d, key) = value)

\* C8: the body create_task signs and sends has topicId and title always,
\* description, assignee and externalId exactly when the argument is a
\* non-empty string, and dueDate exactly when due_date is not None (0
\* included).
C8_CreateTaskBody ==
    \A r \in Requests : call.op = "create_task" =>
        LET d == SentBody(r)
            a == call.args
        IN  /\ r.method = "POST"
            /\ Signature(r) = hmac_sha256_hexdigest(client.secret, r.data)
            /\ HasIff(d, <<"t","o","p","i","c","I","d">>, TRUE, a[1])
            /\ HasIff(d, <<"t","i","t","l","e">>, TRUE, a[2])
            /\ HasIff(d, <<"d","e","s","c","r","i","p","t","i","o","n">>, NonEmpty(a[3]), a[3])
            /\ HasIff(d, <<"a","s","s","i","g","n","e","e">>, NonEmpty(a[4]), a[4])
            /\ HasIff(d, <<"d","u","e","D","a","t","e">>, a[5] # PyNone, a[5])
            /\ HasIff(d, <<"e","x","t","e","r","n","a","l","I","d">>, NonEmpty(a[6]), a[6])
            /\ \A i \in DOMAIN d :
                 d[i][1] \in { <<"t","o","p","i","c","I","d">>, <<"t","i","t","l","e">>, <<"d","e","s","c","r","i","p","t","i","o","n">>, <<"a","s","s","i","g","n","e","e">>,
                               <<"d","u","e","D","a","t","e">>, <<"e","x","t","e","r","n","a","l","I","d">> }

C8_Witness ==
    /\ pc = "waiting"
    /\ wire = <<req>>
    /\ call.op = "create_task"
    /\ call.args[4] = PyStr(<<>>)
    /\ call.args[5] = PyInt(0)
    /\ wire[1].data = <<"{","\"","t","o","p","i","c","I","d","\"",":","\"","t","1","\"",",","\"","t","i","t","l","e","\"",":","\"","n","\"",",","\"","d","u","e","D","a","t","e","\"",":","0","}">>

\* C9: the body update_topic sends has name exactly when name is not None,
\* description exactly when description is not None, an empty string
\* included as such, and no other key.
C9_UpdateTopicBody ==
    \A r \in Requests : call.op = "update_topic" =>
        LET d == SentBody(r)
            a == call.args
        IN  /\ r.method = "PATCH"
            /\ HasIff(d, <<"n","a","m","e">>, a[2] # PyNone, a[2])
            /\ HasIff(d, <<"d","e","s","c","r","i","p","t","i","o","n">>, a[3] # PyNone, a[3])
            /\ \A i \in DOMAIN d : d[i][1] \in { <<"n","a","m","e">>, <<"d","e","s","c","r","i","p","t","i","o","n">> }

C9_Witness ==
    /\ pc = "waiting"
    /\ wire = <<req>>
    /\ call.op = "update_topic"
    /\ call.args[2] = PyStr(<<>>)
    /\ call.args[3] = PyNone
    /\ wire[1].data = <<"{","\"","n","a","m","e","\"",":","\"","\"","}">>

\* C10: the body create_topic sends has name and members always and
\* description, externalId exactly when the argument is a non-empty string;
\* the body send_message sends has topicId and text always and externalId
\* exactly when external_id is a non-empty string.
C10_CreateTopicSendMessageBody ==
    \A r \in Requests :
        LET d == SentBody(r)
            a == call.args
        IN  /\ (call.op = "create_topic" =>
                    /\ r.method = "POST"
                    /\ HasIff(d, <<"n","a","m","e">>, TRUE, a[1])
                    /\ HasIff(d, <<"m","e","m","b","e","r","s">>, TRUE, a[2])
                    /\ HasIff(d, <<"d","e","s","c","r","i","p","t","i","o","n">>, NonEmpty(a[3]), a[3])
                    /\ HasIff(d, <<"e","x","t","e","r","n","a","l","I","d">>, NonEmpty(a[4]), a[4]))
            /\ (call.op = "send_message" =>
                    /\ r.method = "POST"
                    /\ HasIff(d, <<"t","o","p","i","c","I","d">>, TRUE, a[1])
                    /\ HasIff(d, <<"t","e","x","t">>, TRUE, a[2])
                    /\ HasIff(d, <<"e","x","t","e","r","n","a","l","I","d">>, NonEmpty(a[3]), a[3]))

C10_Witness ==
    /\ pc = "waiting"
    /\ wire = <<req>>
    /\ call.op = "create_topic"
    /\ call.args[3] = PyStr(<<>>)
    /\ call.args[4] = PyStr(<<"e","1">>)
    /\ wire[1].data = <<"{","\"","n","a","m","e","\"",":","\"","n","\"",",","\"","m","e","m","b","e","r","s","\"",":","[","\"","m","1","\"",",","\"","m","2","\"","]",",","\"","e","x","t","e","r","n","a","l","I","d","\"",":","\"","e","1","\"","}">>

\* the query text of each limit and cursor argument of the model
ExpectedLimit(limit) ==
    CASE limit = PyNone -> << >>
      [] limit = PyInt(0) -> << <<"l","i","m","i","t","=","0">> >>
      [] limit = PyInt(50) -> << <<"l","i","m","i","t","=","5","0">> >>

ExpectedCursor(cursor) ==
    CASE cursor = PyNone -> << >>
      [] cursor = PyStr(<<>>) -> << <<"c","u","r","s","o","r","=">> >>
      [] cursor = PyStr(<<"c","/","1"," ","=">>) -> << <<"c","u","r","s","o","r","=","c","%","2","F","1","+","%","3","D">> >>

\* C11: in the path list_members and list_topics sign and request, a
\* parameter that is None does not appear, every other parameter appears
\* URL-encoded, limit before cursor; with the default arguments the path is
\* the resource path followed by "?limit=50".
C11_ListQuery ==
    \A r \in Requests : call.op \in {"list_members", "list_topics"} =>
        LET resource == IF call.op = "list_members"
                        THEN <<"/","v","2","/","m","e","m","b","e","r","s">> ELSE <<"/","v","2","/","t","o","p","i","c","s">>
            pairs == ExpectedLimit(call.args[1]) \o ExpectedCursor(call.args[2])
            path == IF pairs = <<>> THEN resource
                    ELSE IF Len(pairs) = 1 THEN resource \o <<"?">> \o pairs[1]
                    ELSE resource \o <<"?">> \o pairs[1] \o <<"&">> \o pairs[2]
        IN  /\ r.url = client.base_url \o path
            /\ Signature(r) = hmac_sha256_hexdigest(client.secret, path)
            /\ (call.args = <<PyInt(DefaultLimit), PyNone>> =>
                    PathOf(r) = resource \o <<"?","l","i","m","i","t","=","5","0">>)

C11_Witness ==
    /\ pc = "waiting"
    /\ wire = <<req>>
    /\ call.op = "list_members"
    /\ call.args = <<PyNone, PyStr(<<"c","/","1"," ","=">>)>>
    /\ PathOf(wire[1]) = <<"/","v","2","/","m","e","m","b","e","r","s","?","c","u","r","s","o","r","=","c","%","2","F","1","+","%","3","D">>

\* t is s without its leading and trailing whitespace
IsTrimOf(t, s) ==
    IF \A i \in DOMAIN s : IsWs(s[i])
    THEN t = <<>>
    ELSE /\ t # <<>>
         /\ ~IsWs(t[1])
         /\ ~IsWs(t[Len(t)])
         /\ \E i \in DOMAIN s :
                /\ i + Len(t) - 1 <= Len(s)
                /\ SubSeq(s, i, i + Len(t) - 1) = t
                /\ \A j \in DOMAIN s : (j < i \/ j > i + Len(t) - 1) => IsWs(s[j])

\* C12: after a completed exchange the call returns normally with the
\* HTTP status; data is the decoded document when the body is JSON, else
\* {"raw": the body trimmed of whitespace}, or {} when the trimmed body is
\* blank.
C12_BodyNormalised ==
    srv.kind = "response" =>
        /\ ret.kind = "value"
        /\ ret.resp.status = srv.status_code
        /\ (srv.payload # NotJson => ret.resp.data = srv.payload)
        /\ (srv.payload = NotJson =>
                /\ ret.resp.data.t = "obj"
                /\ IF IsTrimOf(<<>>, srv.text)
                   THEN ret.resp.data.o = <<>>
                   ELSE /\ DictKeys(ret.resp.data.o) = << <<"r","a","w">> >>
                        /\ DictGet(ret.resp.data.o, <<"r","a","w">>).t = "str"
                        /\ IsTrimOf(DictGet(ret.resp.data.o, <<"r","a","w">>).s, srv.text))
        /\ (srv.status_code = 500 /\ srv.text = <<"p","l","a","i","n"," ","t","e","x","t">> =>
                ret.resp = [status |-> 500,
                            data |-> PyDict(<< <<<<"r","a","w">>, PyStr(<<"p","l","a","i","n"," ","t","e","x","t">>)>> >>),
                            success |-> FALSE])

C12_Witness ==
    /\ pc = "returned"
    /\ srv.kind = "response"
    /\ srv.status_code = 500
    /\ srv.text = <<" "," ","p","l","a","i","n"," ","t","e","x","t","\n">>
    /\ ret.resp.data = PyDict(<< <<<<"r","a","w">>, PyStr(<<"p","l","a","i","n"," ","t","e","x","t">>)>> >>)

\* the percent-encoded form of each external id of the model
ExpectedEncodedId(external_id) ==
    CASE external_id = PyStr(<<"e","1">>) -> <<"e","1">>
      [] external_id = PyStr(<<"b","/","x",":","?">>) -> <<"b","%","2","F","x","%","3","A","%","3","F">>
      [] external_id = PyStr(<<>>) -> <<>>

\* C13: get_topic_by_external_id signs and requests "/v2/topics/external/"
\* followed by the id percent-encoded with no safe character: no "/", ":"
\* or "?" of the id is left as it is, and the path has exactly four "/".
C13_ExternalIdEncoded ==
    \A r \in Requests : call.op = "get_topic_by_external_id" =>
        LET prefix == <<"/","v","2","/","t","o","p","i","c","s","/","e","x","t","e","r","n","a","l","/">>
            path == PathOf(r)
            segment == SubSeq(path, Len(prefix) + 1, Len(path))
        IN  /\ r.method = "GET"
            /\ SubSeq(path, 1, Len(prefix)) = prefix
            /\ Signature(r) = hmac_sha256_hexdigest(client.secret, path)
            /\ segment = ExpectedEncodedId(call.args[1])
            /\ \A i \in DOMAIN segment : segment[i] \notin {"/", ":", "?"}
            /\ Count(path, "/") = 4

C13_Witness ==
    /\ pc = "waiting"
    /\ wire = <<req>>
    /\ call.op = "get_topic_by_external_id"
    /\ call.args[1] = PyStr(<<"b","/","x",":","?">>)
    /\ PathOf(wire[1]) = <<"/","v","2","/","t","o","p","i","c","s","/","e","x","t","e","r","n","a","l","/","b","%","2","F","x","%","3","A","%","3","F">>

\* the path of a request up to its query string
ResourcePath(r) ==
    LET path == PathOf(r)
    IN  IF \E i \in DOMAIN path : path[i] = "?"
        THEN SubSeq(path, 1, (CHOOSE i \in DOMAIN path :
                                /\ path[i] = "?"
                                /\ \A j \in 1..(i - 1) : path[j] # "?") - 1)
        ELSE path

\* the method and path the endpoint table gives each operation
EndpointTable ==
    [get_current_member   |-> <<"GET", <<"/","v","2","/","m","e","m","b","e","r","s","/","m","e">>, <<>> >>,
     list_members         |-> <<"GET", <<"/","v","2","/","m","e","m","b","e","r","s">>, <<>> >>,
     create_topic         |-> <<"POST", <<"/","v","2","/","t","o","p","i","c","s">>, <<>> >>,
     get_topic            |-> <<"GET", <<"/","v","2","/","t","o","p","i","c","s","/">>, <<>> >>,
     list_topics          |-> <<"GET", <<"/","v","2","/","t","o","p","i","c","s">>, <<>> >>,
     update_topic         |-> <<"PATCH", <<"/","v","2","/","t","o","p","i","c","s","/">>, <<>> >>,
     add_topic_members    |-> <<"POST", <<"/","v","2","/","t","o","p","i","c","s","/">>, <<"/","m","e","m","b","e","r","s">> >>,
     remove_topic_members |-> <<"DELETE", <<"/","v","2","/","t","o","p","i","c","s","/">>, <<"/","m","e","m","b","e","r","s">> >>,
     send_message         |-> <<"POST", <<"/","v","2","/","m","e","s","s","a","g","e","s">>, <<>> >>,
     create_task          |-> <<"POST", <<"/","v","2","/","t","a","s","k","s">>, <<>> >>]

\* the operations whose path holds the topic id, their first argument
HasTopicIdInPath(op) ==
    op \in {"get_topic", "update_topic", "add_topic_members", "remove_topic_members"}

\* C14: each operation issues the method and path of the endpoint table;
\* add_topic_members and remove_topic_members send a body whose only key is
\* memberIds, holding the list given.
C14_EndpointTable ==
    \A r \in Requests : call.op \in DOMAIN EndpointTable =>
        LET e == EndpointTable[call.op]
        IN  /\ r.method = e[1]
            /\ ResourcePath(r) =
                    IF HasTopicIdInPath(call.op)
                    THEN e[2] \o call.args[1].s \o e[3]
                    ELSE e[2]
            /\ (call.op \in {"add_topic_members", "remove_topic_members"} =>
                    SentBody(r) = << << <<"m","e","m","b","e","r","I","d","s">>, call.args[2] >> >>)

C14_Witness ==
    /\ pc = "waiting"
    /\ wire = <<req>>
    /\ call.op = "remove_topic_members"
    /\ wire[1].method = "DELETE"
    /\ PathOf(wire[1]) = <<"/","v","2","/","t","o","p","i","c","s","/","t","1","/","m","e","m","b","e","r","s">>
    /\ wire[1].data = <<"{","\"","m","e","m","b","e","r","I","d","s","\"",":","[","\"","m","1","\"",",","\"","m","2","\"","]","}">>

\* C15: a timeout or connection failure gives status 0, success false
\* and data with a non-empty error message.
C15_FailureHasMessage ==
    srv.kind = "exception" =>
        /\ ret.kind = "value"
        /\ ret.resp.status = 0
        /\ ret.resp.success = FALSE
        /\ DictHas(ret.resp.data.o, <<"e","r","r","o","r">>)
        /\ DictGet(ret.resp.data.o, <<"e","r","r","o","r">>).s # <<>>

\* the result of the call whose exchange had this outcome, had it run alone
ResultAlone(outcome) ==
    IF outcome.kind = "response"
    THEN [kind |-> "value",
          resp |-> from_response([status_code |-> outcome.status_code,
                                  text |-> outcome.text])]
    ELSE [kind |-> "value",
          resp |-> from_exception([type |-> outcome.type, msg |-> outcome.msg])]

\* C16: with operations of several threads interleaved on one client, each
\* sends exactly the request it would send alone and returns the Response
\* of its own exchange; a step of one thread changes nothing of another
\* thread's call, and none changes the client.
C16_ConcurrentCallsIndependent ==
    /\ [](\A t \in Threads :
            /\ (pc[t] # "idle" => req[t] = RequestOf(client, call[t]))
            /\ (pc[t] \in {"idle", "signed"} => wire[t] = <<>>)
            /\ (pc[t] \in {"waiting", "returned"} =>
                    wire[t] = <<RequestOf(client, call[t])>>)
            /\ (pc[t] = "returned" => ret[t] = ResultAlone(srv[t])))
    /\ [][/\ client' = client
          /\ \A t \in Threads :
                pc'[t] = pc[t] =>
                    /\ call'[t] = call[t]
                    /\ req'[t] = req[t]
                    /\ wire'[t] = wire[t]
                    /\ srv'[t] = srv[t]
                    /\ ret'[t] = ret[t]]_vars

C16_Witness ==
    /\ pc[1] = "returned"
    /\ pc[2] = "waiting"
    /\ call[1].op = "remove_topic_members"
    /\ call[2].op = "list_topics"
    /\ srv[1].kind = "exception"
    /\ wire[2] = <<req[2]>>
    /\ wire[1] # wire[2]

\* C17: no sequence of operations changes api_key, secret, base_url or
\* timeout, and the request of a call is the one its arguments and these
\* four values give, whatever was called and answered before.
C17_NoCrossRequestState ==
    /\ [](/\ client \in { ZenzapClient(a[1], a[2], a[3], a[4]) : a \in ConstructorArgs }
          /\ (pc # "idle" => req = RequestOf(client, call))
          /\ (pc = "idle" => call = NoCall /\ req = NoRequest /\ ret = NoReturn))
    /\ [][client' = client]_vars

C17_Witness ==
    /\ pc = "returned"
    /\ srv.kind = "exception"
    /\ call.op = "create_task"
    /\ client.timeout = 5
    /\ req.timeout = 5
    /\ req = RequestOf(client, call)

\* C18: once an operation has returned a Response, its status, data and
\* success never change.
C18_ResponseNeverChanges ==
    [][\A t \in Threads :
            (pc[t] = "returned" /\ pc'[t] = "returned") => ret'[t] = ret[t]]_vars

\* C18, as the code has it: no step of a client operation, of the same or
\* of another call, changes a Response that was returned; it changes only
\* by an assignment of its holder to one of its fields.
C18_ResponseChangedByHolderOnly ==
    [][\A t \in Threads :
            (pc[t] = "returned" /\ pc'[t] = "returned" /\ ret'[t] # ret[t]) =>
                /\ pc' = pc
                /\ \A u \in Threads \ {t} : ret'[u] = ret[u]
                /\ \E field \in {"status", "data", "success"} :
                      \A g \in {"status", "data", "success"} \ {field} :
                          ret'[t].resp[g] = ret[t].resp[g]]_vars

C18_Witness ==
    /\ pc[1] = "returned"
    /\ srv[1].kind = "response"
    /\ ret[1].resp.status = 204
    /\ ret[1] # ResultAlone(srv[1])
    /\ pc[2] = "returned"
    /\ ret[2] = ResultAlone(srv[2])

\* C19: no argument is validated locally.  Called with arguments outside
\* the documented limits (no member id, more than 5 member ids, an empty
\* name, title or text, a value one character over its maximum length,
\* update_topic with neither name nor description), an operation raises
\* nothing: it builds and signs its request with the arguments as given,
\* sends it exactly once and returns the normalised Response.
C19_NoLocalValidation ==
    /\ ret.kind # "raised"
    /\ (pc # "idle" /\ OutsideDocumentedLimits(call.op, call.args)) =>
            /\ IsWrite(req)
            /\ Signature(req) = hmac_sha256_hexdigest(client.secret, req.data)
            /\ wire = (IF pc = "signed" THEN <<>> ELSE <<req>>)
            /\ (pc = "returned" =>
                    /\ ret.kind = "value"
                    /\ ret.resp.status =
                          (IF srv.kind = "response" THEN srv.status_code ELSE 0))
    /\ (call.op = "update_topic" /\ call.args = <<Topic1, PyNone, PyNone>>) =>
            req.method = "PATCH" /\ req.data = <<"{","}">>
    /\ (call.op = "create_topic" /\ call.args = <<EmptyStr, NoMemberIds, PyNone, PyNone>>) =>
            req.data = <<"{","\"","n","a","m","e","\"",":","\"","\"",",","\"","m","e","m","b","e","r","s","\"",":","[","]","}">>
    /\ (call.op \in {"add_topic_members", "remove_topic_members"}
          /\ call.args[2] = ManyMemberIds) =>
            req.data = <<"{","\"","m","e","m","b","e","r","I","d","s","\"",":","[","\"","m","1","\"",",","\"","m","2","\"",",","\"","m","1","\"",",","\"","m","2","\"",",","\"","m","1","\"",",","\"","m","2","\"","]","}">>
    /\ (call.op = "send_message" /\ call.args[2] = EmptyStr) =>
            req.data = <<"{","\"","t","o","p","i","c","I","d","\"",":","\"","t","1","\"",",","\"","t","e","x","t","\"",":","\"","\"","}">>
    /\ (call.op = "create_task" /\ call.args[2] = LongTitle) =>
            /\ Len(req.data) =
                    Len(<<"{","\"","t","o","p","i","c","I","d","\"",":","\"","t","1","\"",",","\"","t","i","t","l","e","\"",":","\"","\"",",","\"","d","e","s","c","r","i","p","t","i","o","n","\"",":","\"","\"",",","\"","e","x","t","e","r","n","a","l","I","d","\"",":","\"","\"","}">>)
                    + (TitleMax + 1) + (DescriptionMax + 1) + (ExternalIdMax + 1)
            /\ Count(req.data, "t") = (TitleMax + 1) + 6
    /\ (call.op = "update_topic" /\ call.args[2] = LongName) =>
            Len(req.data) = Len(<<"{","\"","n","a","m","e","\"",":","\"","\"",",","\"","d","e","s","c","r","i","p","t","i","o","n","\"",":","\"","\"","}">>)
                            + (TopicNameMax + 1) + (DescriptionMax + 1)

C19_Witness ==
    /\ pc = "returned"
    /\ call.op = "add_topic_members"
    /\ Len(call.args[2].l) > MemberIdsMax
    /\ OutsideDocumentedLimits(call.op, call.args)
    /\ Len(wire) = 1
    /\ ret.kind = "value"
    /\ ret.resp.status = 201

\* C20: the client holds api_key, secret and timeout as given and base_url
\* as given less its trailing '/' characters (by default
\* https://api.zenzap.co and 30), so the stored base_url does not end with
\* '/', and every request URL is the stored base_url followed by the path:
\* exactly one '/' stands between the two.
C20_Construction ==
    /\ \E a \in ConstructorArgs :
            LET n == Len(client.base_url)
            IN  /\ client.api_key = a[1]
                /\ client.secret = a[2]
                /\ client.timeout = a[4]
                /\ n <= Len(a[3])
                /\ SubSeq(a[3], 1, n) = client.base_url
                /\ \A i \in (n + 1)..Len(a[3]) : a[3][i] = "/"
    /\ client.base_url # <<>>
    /\ client.base_url[Len(client.base_url)] # "/"
    /\ (client.api_key = <<"k","1">> =>
            client.base_url = <<"h","t","t","p","s",":","/","/","a","p","i",".","z","e","n","z","a","p",".","c","o">> /\ client.timeout = 30)
    /\ (client.api_key = <<"k","2">> =>
            client.base_url = <<"h","t","t","p",":","/","/","x">> /\ client.timeout = 5)
    /\ \A r \in Requests :
            LET n == Len(client.base_url)
            IN  /\ Len(r.url) >= n + 2
                /\ SubSeq(r.url, 1, n) = client.base_url
                /\ r.url[n] # "/"
                /\ r.url[n + 1] = "/"
                /\ r.url[n + 2] # "/"
                /\ r.timeout = client.timeout

C20_Witness ==
    /\ pc = "waiting"
    /\ call.op = "get_current_member"
    /\ client = [api_key |-> <<"k","2">>, secret |-> <<"s","2">>,
                 base_url |-> <<"h","t","t","p",":","/","/","x">>, timeout |-> 5]
    /\ wire[1].url = <<"h","t","t","p",":","/","/","x","/","v","2","/","m","e","m","b","e","r","s","/","m","e">>

\* the path of a request of client i: its URL without the stored base_url
PairPath(i, r) == SubSeq(r.url, Len(client[i].base_url) + 1, Len(r.url))

\* C21: the X-Signature is a function of the secret and the signed payload
\* only.  Two write requests built with equal secrets and equal serialised
\* bodies carry the same signature, whatever their methods, paths, api keys
\* and base urls; two read requests built with equal secrets for equal
\* paths carry the same signature, whatever their api keys and base urls.
C21_SignatureOfSecretAndPayload ==
    \A i, j \in Clients :
        (pc[i] # "idle" /\ pc[j] # "idle" /\ client[i].secret = client[j].secret) =>
            /\ (IsWrite(req[i]) /\ IsWrite(req[j]) /\ req[i].data = req[j].data) =>
                    Signature(req[i]) = Signature(req[j])
            /\ (~IsWrite(req[i]) /\ ~IsWrite(req[j])
                  /\ PairPath(i, req[i]) = PairPath(j, req[j])) =>
                    Signature(req[i]) = Signature(req[j])

C21_Witness ==
    /\ pc[1] = "waiting" /\ pc[2] = "waiting"
    /\ client[1].secret = client[2].secret
    /\ client[1].api_key # client[2].api_key
    /\ client[1].base_url # client[2].base_url
    /\ call[1].op = "add_topic_members" /\ call[2].op = "remove_topic_members"
    /\ call[1].args[1] # call[2].args[1]
    /\ wire[1][1].method = "POST" /\ wire[2][1].method = "DELETE"
    /\ wire[1][1].data = wire[2][1].data
    /\ Signature(wire[1][1]) = Signature(wire[2][1])

\* the exchange completed with a status from 200 to 299
Ok(outcome) ==
    outcome.kind = "response" /\ 200 <= outcome.status_code /\ outcome.status_code < 300

\* the positions in wire of the list_topics requests and of the removals
ListIndexes ==
    { i \in DOMAIN wire :
        wire[i].method = "GET"
        /\ StartsWith(wire[i].url, client.base_url \o <<"/","v","2","/","t","o","p","i","c","s","?">>) }
RemoveIndexes == { i \in DOMAIN wire : wire[i].method = "DELETE" }

\* the topics the pages fetched so far listed
ListedTopics == UNION { { srv[j].topics[k] : k \in DOMAIN srv[j].topics } : j \in ListIndexes }

\* the URLs of the members of the listed topics that match is_demo_topic
\* and have the bot among their members
RemovableUrls ==
    (IF TopicDemoBot \in ListedTopics
     THEN { client.base_url \o <<"/","v","2","/","t","o","p","i","c","s","/","t","1","/","m","e","m","b","e","r","s">> } ELSE {})
    \cup (IF TopicDemoNoId \in ListedTopics
          THEN { client.base_url \o <<"/","v","2","/","t","o","p","i","c","s","/","/","m","e","m","b","e","r","s">> } ELSE {})

CredentialsMissing ==
    \/ call.env.api_key \in { PyNone, PyStr(<<>>) }
    \/ call.env.secret \in { PyNone, PyStr(<<>>) }

\* get_current_member did not give the script a bot id: the call failed,
\* or its answer has no id or an empty one
BotIdMissing ==
    /\ Len(srv) >= 1
    /\ srv[1] # Page(200, Obj1(<<"i","d">>, BotId), <<>>, PyNone)

SentCursor(j) == IF j - 1 \in ListIndexes THEN srv[j - 1].next ELSE PyNone

\* page j ends the listing: it has no next cursor, an empty one, or the
\* one it was asked with
LastPage(j) == ~Truthy(srv[j].next) \/ srv[j].next = SentCursor(j)

\* C23: the pagination loop of the cleanup script ends, after at most
\* max_pages calls of list_topics: every step taken in the loop leaves it
\* or counts one more page, up to max_pages, whatever the page answered.
\* The first call has no cursor and each later one the next cursor of the
\* page before; no call follows a failed page (the script exits with
\* status 1) nor a page whose next cursor is absent, empty or the cursor
\* just sent; and the loop goes on to the selection only after such a page
\* or after max_pages pages.
C23_PaginationTerminates ==
    /\ []LET n == Cardinality(ListIndexes)
             first == 2
             last == n + 1
         IN  /\ n <= call.max_pages
             /\ ListIndexes = first..last
             /\ \A j \in ListIndexes :
                    /\ wire[j].url =
                          client.base_url \o <<"/","v","2","/","t","o","p","i","c","s","?","l","i","m","i","t","=","1","0","0">>
                          \o (IF j = first THEN <<>>
                              ELSE <<"&","c","u","r","s","o","r","=">> \o srv[j - 1].next.s)
                    /\ (j < last => Ok(srv[j]) /\ ~LastPage(j))
             /\ (pc = "list" =>
                    /\ n = call.page - 1
                    /\ \A j \in ListIndexes : Ok(srv[j]) /\ ~LastPage(j))
             /\ (n > 0 /\ ~Ok(srv[last]) =>
                    pc = "exited" /\ ret.status = 1 /\ Len(wire) = last)
             /\ (pc \in {"select", "remove"} =>
                    \/ n = call.max_pages
                    \/ n > 0 /\ Ok(srv[last]) /\ LastPage(last))
    /\ [][pc = "list" =>
            \/ pc' # "list"
            \/ /\ call.page <= call.max_pages
               /\ call'.page = call.page + 1
               /\ call'.max_pages = call.max_pages
               /\ Len(wire') = Len(wire) + 1]_vars

\* the listing stopped by max_pages, the last page pointing further
C23_Witness ==
    /\ pc = "select"
    /\ call.max_pages = MaxPages
    /\ Cardinality(ListIndexes) = MaxPages
    /\ \A j \in ListIndexes : Ok(srv[j]) /\ ~LastPage(j)
    /\ wire[3].url = client.base_url \o <<"/","v","2","/","t","o","p","i","c","s","?","l","i","m","i","t","=","1","0","0","&","c","u","r","s","o","r","=","c","1">>

====
